---- MODULE Spec2Model ----
(***************************************************************************)
(* Trade-lifecycle state machine (core/state_manager.py), background       *)
(* position monitor (core/position_monitor.py) and the orchestrator        *)
(* (gui/main_window.py, class TradingBot) of the trading bot.              *)
(*                                                                         *)
(* Threads: the control thread runs TradingBot.start(); the operator (or   *)
(* the signal handler) calls TradingBot.stop() and the administrative      *)
(* StateManager operations at any moment; every start_monitoring()         *)
(* launches one worker thread that runs PositionMonitor._monitor_loop and, *)
(* on a signal, the whole _on_profit_reached callback (pipeline and cycle  *)
(* restart).  No lock protects StateManager, PositionMonitor or the run    *)
(* flag, so the threads interleave between any two steps.  A step holds at *)
(* most one StateManager.set_state call.  The outcomes of the Gateway, the *)
(* Store and the Notifier are nondeterministic.                            *)
(***************************************************************************)
EXTENDS Integers, Sequences, FiniteSets, TLC

\* ---------------------------------------------------------------- bounds
\* worker threads launched in a run
MaxWorkers == 2
\* operator calls (stop, force_reset, recover_from_error) in a run
MaxOps == 2
\* failed or skipped collaborator calls and liquidations in a run
MaxFaults == 2

\* ------------------------------------------------------- optional values
None == <<>>
Some(x) == <<x>>
Get(o) == o[1]
IsSome(o) == o # <<>>

\* ------------------------------------------------------------- BotState
IDLE == "idle"
MONITORING == "monitoring"
CLOSING_POSITION == "closing_position"
CONVERTING == "converting"
WITHDRAWING == "withdrawing"
RESETTING == "resetting"
ERROR == "error"
BotState == {IDLE, MONITORING, CLOSING_POSITION, CONVERTING, WITHDRAWING, RESETTING, ERROR}

\* ----------------------------------------------------------- input sets
Symbol == "BTC/USDT"
Sides == {"long", "short"}
Thresholds == {1}
Prices == {1, 2, 3}
EntryPrice == 2
Quantity == 1
Equities == {0, 1, 2}

\* ------------------------------------------------------------- threads
Ctl == 0
Workers == 1..MaxWorkers
Threads == {Ctl} \cup Workers

VARIABLES
    sm,             \* StateManager: current_state, trading_config, active_position,
                    \*   last_closed_position, trade_history, snapshot (Store row)
    running,        \* TradingBot.running
    mon,            \* PositionMonitor: monitoring, profit_threshold, monitored_symbol,
                    \* monitor_thread, on_profit_reached
    exPos,          \* the open position held by the exchange for Symbol
    pc,             \* position of every thread in its code
    loc,            \* locals of every thread: position, pnl
    cyc,            \* per worker, what its current callback run has done so far
    fires,          \* per worker, how often it has invoked the callback
    launched,       \* number of worker threads started so far
    faults,         \* number of failed or skipped Gateway, Store and Notifier calls and liquidations so far
    ops,            \* number of operator calls (stop, force_reset, recover_from_error) so far
    stop_seen       \* workers whose session was running when stop_monitoring() was called

vars == <<sm, running, mon, exPos, pc, loc, cyc, fires, launched, faults, ops, stop_seen>>

\* ============================================================ TradingConfig
\* TradingConfig.__init__ as called by TradingBot.configure
TradingConfig(side, threshold) ==
    [symbol |-> Symbol, side |-> side, quantity |-> Quantity, leverage |-> 10,
     margin_mode |-> "isolated", profit_threshold |-> threshold,
     entry_price |-> None, position_opened_at |-> None]

\* TradingConfig.reset
ConfigReset(c) == [c EXCEPT !.entry_price = None, !.position_opened_at = None]

\* ============================================================ StateManager
\* StateManager.__init__ on an empty Store
InitSM ==
    [current_state |-> IDLE, trading_config |-> None, active_position |-> None,
     last_closed_position |-> None, trade_history |-> <<>>, snapshot |-> None]

\* StateManager._save_state: a failing Store write is logged and swallowed
save_state(s, ok) ==
    IF ok
    THEN [s EXCEPT !.snapshot = Some([current_state |-> s.current_state,
                                      trading_config |-> s.trading_config,
                                      active_position |-> s.active_position])]
    ELSE s

\* StateManager.set_state: no validation of the requested transition
set_state(s, new_state, ok) ==
    save_state([s EXCEPT !.current_state = new_state], ok)

\* StateManager.initialize_trading_config
initialize_trading_config(s, config, ok) ==
    save_state([s EXCEPT !.trading_config = Some(config)], ok)

can_open_position_unless_busy(s) == s.current_state \notin {MONITORING, CLOSING_POSITION}

\* StateManager.can_open_position
can_open_position(s) == s.current_state \in {IDLE, RESETTING}

\* StateManager.is_monitoring
is_monitoring(s) == s.current_state = MONITORING

\* StateManager.position_opened, up to and including set_state(MONITORING)
position_opened(s, position_data, ok) ==
    LET s1 == [s EXCEPT !.active_position = Some(position_data)]
        s2 == IF IsSome(s1.trading_config)
              THEN [s1 EXCEPT !.trading_config =
                        Some([Get(s1.trading_config) EXCEPT
                                 !.entry_price = Some(position_data.entryPrice),
                                 !.position_opened_at = Some("now")])]
              ELSE s1
    IN  set_state(s2, MONITORING, ok)

\* the dict built by StateManager.position_closed:
\* {**active_position, **close_data, 'profit': profit, 'closed_at': now}
ClosedRecord(position, close_data, profit) ==
    [symbol |-> close_data.symbol, side |-> close_data.side,
     contracts |-> position.contracts, entryPrice |-> position.entryPrice,
     id |-> close_data.id, profit |-> profit, closed_at |-> "now",
     conversion |-> None, withdrawal |-> None]

\* StateManager.position_closed when active_position is set; dbOk is the
\* outcome of db.update_trade_status, which raises on failure after
\* last_closed_position has been assigned
position_closed(s, close_data, profit, dbOk, ok) ==
    LET s1 == [s EXCEPT !.last_closed_position =
                   Some(ClosedRecord(Get(s.active_position), close_data, profit))]
    IN  IF dbOk
        THEN set_state([s1 EXCEPT !.active_position = None], CONVERTING, ok)
        ELSE s1

\* trade_history.append(self.last_closed_position) stores the dict itself, not
\* a copy: until last_closed_position is assigned again (by auto_reset,
\* force_reset or position_closed, none of which leaves the appended value in
\* place) the last entry of trade_history and last_closed_position are one object
Aliased(s) ==
    /\ IsSome(s.last_closed_position)
    /\ Len(s.trade_history) > 0
    /\ s.trade_history[Len(s.trade_history)] = s.last_closed_position

\* self.last_closed_position[key] = value: an item assignment on the dict,
\* seen through every reference to it
SetItem(s, record) ==
    IF Aliased(s)
    THEN [s EXCEPT !.last_closed_position = Some(record),
                   !.trade_history[Len(s.trade_history)] = Some(record)]
    ELSE [s EXCEPT !.last_closed_position = Some(record)]

\* StateManager.conversion_completed
conversion_completed(s, conversion_data, ok) ==
    LET s1 == IF IsSome(s.last_closed_position)
              THEN SetItem(s, [Get(s.last_closed_position) EXCEPT !.conversion = Some(conversion_data)])
              ELSE s
    IN  set_state(s1, WITHDRAWING, ok)

\* StateManager.withdrawal_completed up to the first set_state of auto_reset
withdrawal_completed(s, withdrawal_data, ok) ==
    LET s1 == IF IsSome(s.last_closed_position)
              THEN SetItem(s, [Get(s.last_closed_position) EXCEPT !.withdrawal = Some(withdrawal_data)])
              ELSE s
        s2 == [s1 EXCEPT !.trade_history = Append(s1.trade_history, s1.last_closed_position)]
    IN  set_state(s2, RESETTING, ok)

\* StateManager.auto_reset, first half: set_state(RESETTING)
auto_reset_begin(s, ok) == set_state(s, RESETTING, ok)

\* auto_reset that leaves last_closed_position in place
auto_reset_end_keeping_record(s, ok) ==
    LET s1 == IF IsSome(s.trading_config)
              THEN [s EXCEPT !.trading_config = Some(ConfigReset(Get(s.trading_config)))]
              ELSE s
    IN  set_state(s1, IDLE, ok)

\* StateManager.auto_reset, second half: reset config, clear record, set_state(IDLE)
auto_reset_end(s, ok) ==
    LET s1 == IF IsSome(s.trading_config)
              THEN [s EXCEPT !.trading_config = Some(ConfigReset(Get(s.trading_config)))]
              ELSE s
    IN  set_state([s1 EXCEPT !.last_closed_position = None], IDLE, ok)

\* StateManager.handle_error, the in-memory part (set_state(ERROR))
handle_error(s, ok) == set_state(s, ERROR, ok)

\* recover_from_error that ignores active_position
recover_from_error_to_idle(s, ok) == set_state(s, IDLE, ok)

\* StateManager.recover_from_error
recover_from_error(s, ok) ==
    IF IsSome(s.active_position) THEN set_state(s, MONITORING, ok) ELSE set_state(s, IDLE, ok)

\* force_reset that leaves last_closed_position in place
force_reset_keeping_record(s, ok) ==
    LET s1 == [s EXCEPT !.current_state = IDLE, !.active_position = None]
        s2 == IF IsSome(s1.trading_config)
              THEN [s1 EXCEPT !.trading_config = Some(ConfigReset(Get(s1.trading_config)))]
              ELSE s1
    IN  save_state(s2, ok)

\* StateManager.force_reset: assigns current_state directly, no set_state
force_reset(s, ok) ==
    LET s1 == [s EXCEPT !.current_state = IDLE, !.active_position = None,
                        !.last_closed_position = None]
        s2 == IF IsSome(s1.trading_config)
              THEN [s1 EXCEPT !.trading_config = Some(ConfigReset(Get(s1.trading_config)))]
              ELSE s1
    IN  save_state(s2, ok)


\* ================================================================ Gateway
\* ExchangeClient.get_position_by_symbol: a Gateway failure is swallowed -> None
get_position_by_symbol(ex, gwOk) == IF gwOk THEN ex ELSE None

\* ExchangeClient.calculate_position_pnl: a failing ticker fetch yields 0.0
calculate_position_pnl(position, tickerOk, current_price) ==
    IF ~tickerOk THEN 0
    ELSE IF position.side = "long"
         THEN (current_price - position.entryPrice) * position.contracts
         ELSE (position.entryPrice - current_price) * position.contracts

order_side_buy_unless_short(side) == IF side = "short" THEN "sell" ELSE "buy"

\* order_side = 'buy' if side == 'long' else 'sell'
order_side(side) == IF side = "long" THEN "buy" ELSE "sell"

\* the exchange after a filled opening market order (buy for long, else sell):
\* a new position, a larger position on the same side, or a position on the
\* other side reduced by the order
AfterOpenOrder(ex, side) ==
    IF ex = None
    THEN Some([symbol |-> Symbol, side |-> side, contracts |-> Quantity, entryPrice |-> EntryPrice])
    ELSE IF Get(ex).side = side
         THEN Some([Get(ex) EXCEPT !.contracts = @ + Quantity])
         ELSE IF Get(ex).contracts > Quantity
              THEN Some([Get(ex) EXCEPT !.contracts = @ - Quantity])
              ELSE None

closing_side_same(position_side) == IF position_side = "long" THEN "buy" ELSE "sell"

\* side = 'sell' if position_side == 'long' else 'buy'
closing_side(position_side) == IF position_side = "long" THEN "sell" ELSE "buy"

\* ExchangeClient.close_position: "none" when no position is found, "raise"
\* when the reduce-only order is rejected, else the order
close_position(ex, position_side, gwOk, orderOk) ==
    LET position == get_position_by_symbol(ex, gwOk)
        side == closing_side(position_side)
        reduces == (Get(position).side = "long") = (side = "sell")
    IN  IF position = None THEN [kind |-> "none", order |-> None]
        ELSE IF orderOk /\ reduces
             THEN [kind |-> "order",
                   order |-> Some([id |-> "close", symbol |-> Symbol, side |-> side,
                                   amount |-> Get(position).contracts])]
             ELSE [kind |-> "raise", order |-> None]

\* OrderExecutor.execute_profit_close -> OrderExecutor.close_position:
\* every exception is re-raised as OrderExecutionError, None is passed through
execute_profit_close(ex, position, gwOk, orderOk) ==
    close_position(ex, position.side, gwOk, orderOk)

\* ExchangeClient.convert_crypto: quote, then accept; a failure of either is
\* logged and the function returns None
convert_crypto(quoteOk, acceptOk) ==
    IF quoteOk /\ acceptOk THEN Some([quoteId |-> "q"]) ELSE None

\* execute_conversion without the comparison of the amount with the free balance
execute_conversion_any_balance(enabled, amount, balOk, available, quoteOk, acceptOk) ==
    IF ~enabled THEN None
    ELSE IF ~balOk THEN None
    ELSE convert_crypto(quoteOk, acceptOk)

\* ConversionManager.execute_conversion
execute_conversion(enabled, amount, balOk, available, quoteOk, acceptOk) ==
    IF ~enabled THEN None
    ELSE IF ~balOk THEN None
    ELSE IF available < amount THEN None
    ELSE convert_crypto(quoteOk, acceptOk)

\* ConversionManager.auto_convert_after_close
auto_convert_after_close(enabled, balOk1, available1, balOk2, available2, quoteOk, acceptOk) ==
    IF ~enabled THEN None
    ELSE IF ~balOk1 THEN None
    ELSE IF available1 <= 0 THEN None
    ELSE execute_conversion(enabled, available1, balOk2, available2, quoteOk, acceptOk)

AUTO_CONVERT_ENABLED == TRUE
MIN_WITHDRAWAL_AMOUNT == 10
Balances == {0, 5, 10}

\* execute_withdrawal without the comparison of the amount with the free balance
execute_withdrawal_any_balance(enabled, hasAddress, amount, balOk, available, withdrawOk) ==
    LET requested == IF amount = None THEN available ELSE Get(amount)
    IN  IF ~enabled THEN None
        ELSE IF ~hasAddress THEN None
        ELSE IF ~balOk THEN None
        ELSE IF requested < MIN_WITHDRAWAL_AMOUNT THEN None
        ELSE IF ~withdrawOk THEN None
        ELSE Some([id |-> "w", amount |-> requested])

\* WithdrawalManager.execute_withdrawal; amount = None withdraws the free balance
execute_withdrawal(enabled, hasAddress, amount, balOk, available, withdrawOk) ==
    LET requested == IF amount = None THEN available ELSE Get(amount)
    IN  IF ~enabled THEN None
        ELSE IF ~hasAddress THEN None
        ELSE IF ~balOk THEN None
        ELSE IF requested < MIN_WITHDRAWAL_AMOUNT THEN None
        ELSE IF available < requested THEN None
        ELSE IF ~withdrawOk THEN None
        ELSE Some([id |-> "w", amount |-> requested])

\* WithdrawalManager.auto_withdraw_after_conversion
auto_withdraw_after_conversion(enabled, hasAddress, balOk, available, withdrawOk) ==
    IF ~enabled THEN None
    ELSE execute_withdrawal(enabled, hasAddress, None, balOk, available, withdrawOk)

\* check_liquidation with the boundary on the other side
check_liquidation_inclusive(ex, gwOk, total_equity) ==
    IF ~gwOk THEN FALSE
    ELSE total_equity <= 1 /\ ex = None

\* PositionMonitor.check_liquidation
check_liquidation(ex, gwOk, total_equity) ==
    IF ~gwOk THEN FALSE
    ELSE total_equity < 1 /\ ex = None

\* the results the conversion step can see, over every Gateway outcome
ConversionResults ==
    {auto_convert_after_close(AUTO_CONVERT_ENABLED, b1, a1, b2, a2, q, a) :
        b1 \in BOOLEAN, a1 \in Balances, b2 \in BOOLEAN, a2 \in Balances,
        q \in BOOLEAN, a \in BOOLEAN}

\* the results the withdrawal step can see, over every setting and Gateway outcome
WithdrawalResults ==
    {auto_withdraw_after_conversion(e, h, b, a, w) :
        e \in BOOLEAN, h \in BOOLEAN, b \in BOOLEAN, a \in {0, 10}, w \in BOOLEAN}

\* on_profit_reached=self._on_profit_reached, the callback TradingBot registers
OnProfitReached == "_on_profit_reached"

\* ================================================================ threads
InitLoc == [position |-> None, pnl |-> 0, order |-> None]
InitCyc == [close |-> "none", conv |-> "none", wd |-> "none", appended |-> 0,
            trail |-> <<>>]

\* where a thread continues when _run_trading_cycle (or stop) returns
After(t) == IF t \in Workers THEN "done" ELSE "idle"
\* the except clause an exception of the cycle reaches
Handler(t) == IF t \in Workers THEN "cb_err" ELSE "start_err"

Move(t, p) ==
    /\ pc' = [pc EXCEPT ![t] = p]
    /\ stop_seen' = IF p = "done" THEN stop_seen \ {t} ELSE stop_seen
Trail(w, st) == [cyc EXCEPT ![w].trail = Append(@, st)]
\* a thread leaves the code that used its locals
Forget(t) ==
    /\ loc' = [loc EXCEPT ![t] = InitLoc]
    /\ cyc' = [w \in Workers |-> IF w = t THEN InitCyc ELSE cyc[w]]
\* n failures happen in this step
Charge(n) == faults + n <= MaxFaults /\ faults' = faults + n
F(ok) == IF ok THEN 0 ELSE 1

Init ==
    /\ sm = InitSM
    /\ running = FALSE
    /\ mon = [monitoring |-> FALSE, profit_threshold |-> 0, monitored_symbol |-> None,
              monitor_thread |-> None, on_profit_reached |-> None]
    /\ exPos = None
    /\ pc = [t \in Threads |-> IF t \in Workers THEN "unborn" ELSE "idle"]
    /\ loc = [t \in Threads |-> InitLoc]
    /\ cyc = [w \in Workers |-> InitCyc]
    /\ fires = [w \in Workers |-> 0]
    /\ launched = 0
    /\ faults = 0
    /\ ops = 0
    /\ stop_seen = {}

\* ------------------------------------------------ PositionMonitor worker
\* a loop that does not test the flag (while True)
MonitorCheck_ignoring_flag(w) ==
    /\ pc[w] = "check"
    /\ Move(w, "poll")
    /\ UNCHANGED <<sm, running, mon, exPos, loc, cyc, fires, launched, faults, ops>>

\* _monitor_loop: while self.monitoring
MonitorCheck(w) ==
    /\ pc[w] = "check"
    /\ Move(w, IF mon.monitoring THEN "poll" ELSE "done")
    /\ UNCHANGED <<sm, running, mon, exPos, loc, cyc, fires, launched, faults, ops>>

\* the comparison of _monitor_loop
ThresholdReached(current_pnl, profit_threshold) == current_pnl >= profit_threshold

\* _monitor_loop, one poll: fetch the position, compute the PnL, compare;
\* on a signal clear the flag before the callback
MonitorPoll(w) ==
    /\ pc[w] = "poll"
    /\ \E gwOk \in BOOLEAN, tickerOk \in BOOLEAN, price \in Prices :
         LET position == get_position_by_symbol(exPos, gwOk)
             current_pnl == calculate_position_pnl(Get(position), tickerOk, price)
         IN  IF position = None
             THEN Move(w, "check") /\ UNCHANGED <<mon, loc, fires>>
             ELSE IF ThresholdReached(current_pnl, mon.profit_threshold)
                  THEN /\ mon' = [mon EXCEPT !.monitoring = FALSE]
                       /\ loc' = [loc EXCEPT ![w].position = position, ![w].pnl = current_pnl]
                       /\ fires' = [fires EXCEPT ![w] = @ + 1]
                       /\ pc' = [pc EXCEPT ![w] = "cb_start"]
                       /\ stop_seen' = stop_seen \ {w}
                  ELSE Move(w, "check") /\ UNCHANGED <<mon, loc, fires>>
    /\ UNCHANGED <<sm, running, exPos, cyc, launched, faults, ops>>

\* ------------------------------------- TradingBot._on_profit_reached
\* Step 1: self.state.set_state(BotState.CLOSING_POSITION), then
\* close_order = self.executor.execute_profit_close(position, profit);
\* a falsy close_order ends the callback with nothing else done
CbClose(w) ==
    /\ pc[w] = "cb_start"
    /\ \E ok \in BOOLEAN, gwOk \in BOOLEAN, orderOk \in BOOLEAN :
         LET r == execute_profit_close(exPos, Get(loc[w].position), gwOk, orderOk)
         IN  /\ Charge(F(ok) + F(gwOk) + F(orderOk))
             /\ gwOk \/ orderOk
             /\ sm' = set_state(sm, CLOSING_POSITION, ok)
             /\ CASE r.kind = "order" ->
                      /\ exPos' = None
                      /\ loc' = [loc EXCEPT ![w].order = r.order]
                      /\ cyc' = [Trail(w, CLOSING_POSITION) EXCEPT ![w].close = "ok"]
                      /\ Move(w, "pos_closed")
                 [] r.kind = "none" ->
                      /\ Forget(w)
                      /\ Move(w, "done")
                      /\ UNCHANGED exPos
                 [] r.kind = "raise" ->
                      /\ cyc' = [Trail(w, CLOSING_POSITION) EXCEPT ![w].close = "raised"]
                      /\ Move(w, "cb_err")
                      /\ UNCHANGED <<exPos, loc>>
    /\ UNCHANGED <<running, mon, fires, launched, ops>>

\* self.state.position_closed(close_order, profit), where {**None} raises
\* TypeError, then self.notifier.send_position_closed_alert(position, profit),
\* where db.save_notification and the formatting of the fields raise
CbPositionClosed(w) ==
    /\ pc[w] = "pos_closed"
    /\ IF sm.active_position = None
       THEN Move(w, "cb_err") /\ UNCHANGED <<sm, cyc, faults>>
       ELSE \E dbOk \in BOOLEAN, ok \in BOOLEAN, nOk \in BOOLEAN :
              /\ Charge(F(dbOk) + F(ok) + F(nOk))
              /\ sm' = position_closed(sm, Get(loc[w].order), loc[w].pnl, dbOk, ok)
              /\ IF dbOk
                 THEN Move(w, IF nOk THEN "conv" ELSE "cb_err") /\ cyc' = Trail(w, CONVERTING)
                 ELSE ok /\ nOk /\ Move(w, "cb_err") /\ UNCHANGED cyc
    /\ UNCHANGED <<running, mon, exPos, loc, fires, launched, ops>>

\* TradingBot._execute_conversion: no result and every exception are swallowed
ExecuteConversion(w) ==
    /\ pc[w] = "conv"
    /\ \E result \in ConversionResults, ok \in BOOLEAN :
         /\ Charge(F(IsSome(result)) + F(ok))
         /\ IsSome(result) \/ ok
         /\ IF IsSome(result)
            THEN /\ sm' = conversion_completed(sm, Get(result), ok)
                 /\ cyc' = [Trail(w, WITHDRAWING) EXCEPT ![w].conv = "ok"]
            ELSE /\ cyc' = [cyc EXCEPT ![w].conv = "failed"]
                 /\ UNCHANGED sm
    /\ Move(w, "wd")
    /\ UNCHANGED <<running, mon, exPos, loc, fires, launched, ops>>

\* TradingBot._execute_withdrawal: withdrawal_completed (and with it the append
\* to trade_history and auto_reset) only runs when there is a result
ExecuteWithdrawal(w) ==
    /\ pc[w] = "wd"
    /\ \E result \in WithdrawalResults, ok \in BOOLEAN :
         /\ Charge(F(IsSome(result)) + F(ok))
         /\ IsSome(result) \/ ok
         /\ IF IsSome(result)
            THEN /\ sm' = withdrawal_completed(sm, Get(result), ok)
                 /\ cyc' = [Trail(w, RESETTING) EXCEPT ![w].wd = "ok", ![w].appended = @ + 1]
                 /\ Move(w, "wd_reset")
            ELSE /\ cyc' = [cyc EXCEPT ![w].wd = "failed"]
                 /\ Move(w, "reset1")
                 /\ UNCHANGED sm
    /\ UNCHANGED <<running, mon, exPos, loc, fires, launched, ops>>

\* the rest of the auto_reset() called by withdrawal_completed
WithdrawalReset(w) ==
    /\ pc[w] = "wd_reset"
    /\ \E ok \in BOOLEAN : Charge(F(ok)) /\ sm' = auto_reset_end(sm, ok)
    /\ cyc' = Trail(w, IDLE)
    /\ Move(w, "reset1")
    /\ UNCHANGED <<running, mon, exPos, loc, fires, launched, ops>>

\* Step 4: self.state.auto_reset(), first set_state
AutoResetBegin(w) ==
    /\ pc[w] = "reset1"
    /\ \E ok \in BOOLEAN : Charge(F(ok)) /\ sm' = auto_reset_begin(sm, ok)
    /\ cyc' = Trail(w, RESETTING)
    /\ Move(w, "reset2")
    /\ UNCHANGED <<running, mon, exPos, loc, fires, launched, ops>>

\* Step 4: self.state.auto_reset(), second set_state, then
\* if self.running: self._run_trading_cycle()
AutoResetEnd(w) ==
    /\ pc[w] = "reset2"
    /\ \E ok \in BOOLEAN : Charge(F(ok)) /\ sm' = auto_reset_end(sm, ok)
    /\ Move(w, IF running THEN "cycle" ELSE "done")
    /\ Forget(w)
    /\ UNCHANGED <<running, mon, exPos, fires, launched, ops>>

\* except clause of _on_profit_reached: self.state.handle_error(str(e));
\* db.save_error_log raises, and the exception then leaves the callback and is
\* caught by the except clause of _monitor_loop
CbError(w) ==
    /\ pc[w] = "cb_err"
    /\ \E ok \in BOOLEAN, logOk \in BOOLEAN :
         /\ Charge(F(ok) + F(logOk))
         /\ sm' = handle_error(sm, ok)
         /\ IF logOk
            THEN Move(w, "cb_alert") /\ cyc' = Trail(w, ERROR) /\ UNCHANGED loc
            ELSE Move(w, "check") /\ Forget(w)
    /\ UNCHANGED <<running, mon, exPos, fires, launched, ops>>

\* except clause of _on_profit_reached: self.notifier.send_error_alert(...);
\* db.save_notification raises into _monitor_loop
CbErrorAlert(w) ==
    /\ pc[w] = "cb_alert"
    /\ \E nOk \in BOOLEAN :
         /\ Charge(F(nOk))
         /\ Move(w, IF nOk THEN "done" ELSE "check")
    /\ Forget(w)
    /\ UNCHANGED <<sm, running, mon, exPos, fires, launched, ops>>

\* ------------------------------------------ TradingBot._run_trading_cycle
CycleThreads == {Ctl} \cup Workers

\* TradingBot._open_position up to its except clause: the order, the fetch of
\* the new position and position_opened; "raise" when executor.open_position
\* or db.save_trade raises
open_position(s, ex, orderOk, gwOk, dbOk, ok) ==
    IF ~orderOk THEN [kind |-> "raise", sm |-> s, ex |-> ex]
    ELSE LET ex1 == AfterOpenOrder(ex, Get(s.trading_config).side)
             position == get_position_by_symbol(ex1, gwOk)
         IN  IF position = None THEN [kind |-> "return", sm |-> s, ex |-> ex1]
             ELSE [kind |-> IF dbOk THEN "return" ELSE "raise",
                   sm |-> position_opened(s, Get(position), ok), ex |-> ex1]

\* _run_trading_cycle up to "Start monitoring": an existing position is
\* adopted, else a position is opened when can_open_position() holds;
\* db.save_trade raising in position_opened leaves the cycle
RunCycle(t) ==
    /\ pc[t] = "cycle"
    /\ \E gwOk \in BOOLEAN, ok \in BOOLEAN, dbOk \in BOOLEAN, orderOk \in BOOLEAN,
          gwOk2 \in BOOLEAN :
         LET existing_position == get_position_by_symbol(exPos, gwOk)
         IN  IF IsSome(existing_position)
             THEN /\ orderOk /\ gwOk2
                  /\ Charge(F(ok) + F(dbOk))
                  /\ sm' = position_opened(sm, Get(existing_position), ok)
                  /\ Move(t, IF dbOk THEN "mon_check" ELSE Handler(t))
                  /\ UNCHANGED exPos
             ELSE IF can_open_position(sm)
                  THEN LET r == open_position(sm, exPos, orderOk, gwOk2, dbOk, ok)
                       IN  /\ orderOk \/ (gwOk2 /\ dbOk)
                           /\ gwOk2 \/ (dbOk /\ ok)
                           /\ Charge(F(exPos = None) + F(orderOk) + F(gwOk2) + F(ok) + F(dbOk))
                           /\ sm' = r.sm
                           /\ exPos' = r.ex
                           /\ Move(t, IF r.kind = "raise" THEN "open_err" ELSE "mon_check")
                  ELSE /\ orderOk /\ gwOk2 /\ dbOk /\ ok
                       /\ Charge(F(exPos = None))
                       /\ Move(t, "mon_check")
                       /\ UNCHANGED <<sm, exPos>>
    /\ UNCHANGED <<running, mon, loc, cyc, fires, launched, ops>>

\* except clause of _open_position: handle_error, then raise
OpenError(t) ==
    /\ pc[t] = "open_err"
    /\ \E ok \in BOOLEAN : Charge(F(ok)) /\ sm' = handle_error(sm, ok)
    /\ Move(t, Handler(t))
    /\ UNCHANGED <<running, mon, exPos, loc, cyc, fires, launched, ops>>

start_monitoring_unguarded(m, symbol, profit_threshold, on_profit_reached, thread) ==
    [monitoring |-> TRUE, profit_threshold |-> profit_threshold,
     monitored_symbol |-> Some(symbol),
     monitor_thread |-> IF m.monitoring THEN m.monitor_thread ELSE Some(thread),
     on_profit_reached |-> Some(on_profit_reached)]

\* PositionMonitor.start_monitoring
start_monitoring(m, symbol, profit_threshold, on_profit_reached, thread) ==
    IF m.monitoring THEN m
    ELSE [monitoring |-> TRUE, profit_threshold |-> profit_threshold,
          monitored_symbol |-> Some(symbol), monitor_thread |-> Some(thread),
          on_profit_reached |-> Some(on_profit_reached)]

\* if self.state.is_monitoring(): self.monitor.start_monitoring(...)
StartMonitoring(t) ==
    /\ pc[t] = "mon_check"
    /\ IF is_monitoring(sm)
       THEN /\ mon.monitoring \/ launched < MaxWorkers
            /\ mon' = start_monitoring(mon, Get(sm.trading_config).symbol,
                                       Get(sm.trading_config).profit_threshold,
                                       OnProfitReached, launched + 1)
            /\ IF mon.monitoring
               THEN pc' = [pc EXCEPT ![t] = "loop"] /\ UNCHANGED launched
               ELSE /\ pc' = [pc EXCEPT ![t] = "loop", ![launched + 1] = "check"]
                    /\ launched' = launched + 1
            /\ UNCHANGED stop_seen
       ELSE /\ Move(t, After(t))
            /\ UNCHANGED <<mon, launched>>
    /\ UNCHANGED <<sm, running, exPos, loc, cyc, fires, faults, ops>>

\* while self.running and self.state.is_monitoring(): if check_liquidation():
\* _handle_liquidation(), whose get_account_balance and send_liquidation_alert
\* raise into the caller of _run_trading_cycle
LiquidationLoop(t) ==
    /\ pc[t] = "loop"
    /\ IF running /\ is_monitoring(sm)
       THEN \E gwOk \in BOOLEAN, total_equity \in Equities :
              IF check_liquidation(exPos, gwOk, total_equity)
              THEN \E balOk \in BOOLEAN, nOk \in BOOLEAN :
                     /\ balOk \/ nOk
                     /\ Charge(F(balOk) + F(nOk))
                     /\ Move(t, IF balOk /\ nOk THEN "liq_err" ELSE Handler(t))
              ELSE Move(t, "loop") /\ UNCHANGED faults
       ELSE Move(t, After(t)) /\ UNCHANGED faults
    /\ UNCHANGED <<sm, running, mon, exPos, loc, cyc, fires, launched, ops>>

\* _handle_liquidation: self.state.handle_error(...), where db.save_error_log
\* raises, then self.stop()
LiquidationError(t) ==
    /\ pc[t] = "liq_err"
    /\ \E ok \in BOOLEAN, logOk \in BOOLEAN :
         /\ Charge(F(ok) + F(logOk))
         /\ sm' = handle_error(sm, ok)
         /\ Move(t, IF logOk THEN "stop1" ELSE Handler(t))
    /\ UNCHANGED <<running, mon, exPos, loc, cyc, fires, launched, ops>>

\* ------------------------------------------------------ TradingBot.stop
\* PositionMonitor.stop_monitoring: self.monitoring = False, then
\* self.monitor_thread.join(timeout=5), which returns when the worker has
\* exited or when the timeout expires, so the worker may still be running
stop_monitoring(m) == [m EXCEPT !.monitoring = FALSE]

\* the session stop_monitoring() stops, if one is running
StoppedSession ==
    IF mon.monitoring /\ IsSome(mon.monitor_thread)
    THEN IF pc[Get(mon.monitor_thread)] \in {"check", "poll"}
         THEN {Get(mon.monitor_thread)} ELSE {}
    ELSE {}

\* TradingBot.stop: self.running = False; self.monitor.stop_monitoring()
stop ==
    /\ running' = FALSE
    /\ mon' = stop_monitoring(mon)

\* self.stop() at the end of _handle_liquidation
LiquidationStop(t) ==
    /\ pc[t] = "stop1"
    /\ stop
    /\ pc' = [pc EXCEPT ![t] = After(t)]
    /\ stop_seen' = (stop_seen \cup StoppedSession) \ (IF t \in Workers THEN {t} ELSE {})
    /\ UNCHANGED <<sm, exPos, loc, cyc, fires, launched, faults, ops>>

\* ----------------------------------------------------- control surface
\* TradingBot.configure -> StateManager.initialize_trading_config
Configure ==
    /\ sm.trading_config = None
    /\ \E side \in Sides, threshold \in Thresholds, ok \in BOOLEAN :
         Charge(F(ok)) /\ sm' = initialize_trading_config(sm, TradingConfig(side, threshold), ok)
    /\ UNCHANGED <<running, mon, exPos, pc, loc, cyc, fires, launched, ops, stop_seen>>

\* TradingBot.start
Start ==
    /\ pc[Ctl] = "idle"
    /\ ~running
    /\ IsSome(sm.trading_config)
    /\ running' = TRUE
    /\ Move(Ctl, "cycle")
    /\ UNCHANGED <<sm, mon, exPos, loc, cyc, fires, launched, faults, ops>>

\* except clause of start(): handle_error, then send_error_alert
StartError ==
    /\ pc[Ctl] = "start_err"
    /\ \E ok \in BOOLEAN : Charge(F(ok)) /\ sm' = handle_error(sm, ok)
    /\ Move(Ctl, "idle")
    /\ UNCHANGED <<running, mon, exPos, loc, cyc, fires, launched, ops>>

\* TradingBot.stop called by the operator or the signal handler
Stop ==
    /\ ops < MaxOps
    /\ ops' = ops + 1
    /\ stop
    /\ stop_seen' = stop_seen \cup StoppedSession
    /\ UNCHANGED <<sm, exPos, pc, loc, cyc, fires, launched, faults>>

\* StateManager.force_reset called by the operator
ForceReset ==
    /\ ops < MaxOps
    /\ ops' = ops + 1
    /\ \E ok \in BOOLEAN : Charge(F(ok)) /\ sm' = force_reset(sm, ok)
    /\ UNCHANGED <<running, mon, exPos, pc, loc, cyc, fires, launched, stop_seen>>

\* StateManager.recover_from_error called by the operator
RecoverFromError ==
    /\ ops < MaxOps
    /\ ops' = ops + 1
    /\ sm.current_state = ERROR
    /\ \E ok \in BOOLEAN : Charge(F(ok)) /\ sm' = recover_from_error(sm, ok)
    /\ UNCHANGED <<running, mon, exPos, pc, loc, cyc, fires, launched, stop_seen>>

\* the exchange liquidates the open position
Liquidate ==
    /\ IsSome(exPos)
    /\ Charge(1)
    /\ exPos' = None
    /\ UNCHANGED <<sm, running, mon, pc, loc, cyc, fires, launched, ops, stop_seen>>

\* ------------------------------------------------------------------ Next
WorkerStep(w) ==
    \/ MonitorCheck(w) \/ MonitorPoll(w)
    \/ CbClose(w) \/ CbPositionClosed(w)
    \/ ExecuteConversion(w) \/ ExecuteWithdrawal(w) \/ WithdrawalReset(w)
    \/ AutoResetBegin(w) \/ AutoResetEnd(w)
    \/ CbError(w) \/ CbErrorAlert(w)

CycleStep(t) ==
    \/ RunCycle(t) \/ OpenError(t) \/ StartMonitoring(t) \/ LiquidationLoop(t)
    \/ LiquidationError(t) \/ LiquidationStop(t)

Next ==
    \/ \E w \in Workers : WorkerStep(w)
    \/ \E t \in CycleThreads : CycleStep(t)
    \/ Configure \/ Start \/ StartError \/ Stop \/ ForceReset \/ RecoverFromError
    \/ Liquidate

Spec == Init /\ [][Next]_vars

\* the scheduler runs every thread that can take a step; the operator's calls
\* and the failures of the collaborators are not obliged to happen
FairSpec ==
    /\ Spec
    /\ \A w \in Workers : WF_vars(WorkerStep(w))
    /\ \A t \in CycleThreads : WF_vars(CycleStep(t))
    /\ WF_vars(StartError)

\* ============================================================ properties
\* the transition table of the lifecycle (from, to)
TableRow(from, to) ==
    \/ from \in {IDLE, RESETTING} /\ to = MONITORING
    \/ from = MONITORING /\ to = CLOSING_POSITION
    \/ from = CLOSING_POSITION /\ to = CONVERTING
    \/ from = CONVERTING /\ to = WITHDRAWING
    \/ from = WITHDRAWING /\ to = RESETTING
    \/ from = RESETTING /\ to = IDLE
    \/ to = ERROR
    \/ from = ERROR /\ to \in {MONITORING, IDLE}

\* the step is a call of force_reset
ForceResetStep == ops' # ops /\ sm'.current_state = IDLE

\* thread t takes a step
Steps(t) == pc'[t] # pc[t]

\* C1: every change of the current BotState is a row of the transition table,
\* force_reset excepted
C1_TableRowsOnly ==
    [][sm'.current_state # sm.current_state =>
          TableRow(sm.current_state, sm'.current_state) \/ ForceResetStep]_vars

\* the state a callback at this position asks set_state for, whatever the
\* collaborators answer: _on_profit_reached step 1 and the calls of auto_reset
SetStateRequest(p) ==
    CASE p = "cb_start" -> Some(CLOSING_POSITION)
      [] p = "reset1" -> Some(RESETTING)
      [] p \in {"wd_reset", "reset2"} -> Some(IDLE)
      [] OTHER -> None

\* C2: a set_state request that is no row of the transition table fails and
\* leaves the current state and the persisted snapshot unchanged
C2_InvalidRequestRejected ==
    [][\A w \in Workers :
          (/\ Steps(w)
           /\ IsSome(SetStateRequest(pc[w]))
           /\ ~TableRow(sm.current_state, Get(SetStateRequest(pc[w]))))
          => sm'.current_state = sm.current_state /\ sm'.snapshot = sm.snapshot]_vars

\* the states of a cycle in which everything succeeds
SuccessfulCycle == <<CLOSING_POSITION, CONVERTING, WITHDRAWING, RESETTING, IDLE>>

\* C3: when close, conversion and withdrawal all succeed, the pipeline enters
\* exactly ClosingPosition, Converting, Withdrawing, Resetting, Idle, each
\* once, and appends exactly one record to trade_history
C3_SuccessfulCycleSequence ==
    [][\A w \in Workers :
          (/\ pc[w] = "reset2" /\ Steps(w)
           /\ cyc[w].close = "ok" /\ cyc[w].conv = "ok" /\ cyc[w].wd = "ok")
          => /\ Append(cyc[w].trail, sm'.current_state) = SuccessfulCycle
             /\ cyc[w].appended = 1]_vars

\* C4: a pipeline whose close succeeded has appended no record before the
\* withdrawal step and exactly one record once the withdrawal step is over,
\* whether the withdrawal succeeded, was skipped or failed
C4_OneRecordAfterWithdrawal ==
    \A w \in Workers :
        /\ pc[w] \in {"pos_closed", "conv", "wd"} => cyc[w].appended = 0
        /\ pc[w] \in {"wd_reset", "reset1", "reset2"} /\ cyc[w].close = "ok"
              => cyc[w].appended = 1

\* C5: once the callback is invoked the bot eventually is Idle or Error,
\* for every outcome of the close, conversion and withdrawal steps
C5_CallbackReachesIdleOrError ==
    \A w \in Workers :
        (pc[w] = "cb_start") ~> (sm.current_state \in {IDLE, ERROR})

\* the trade_history entry (a record, or None when last_closed_position was
\* cleared before the append) carries a conversion result
HasConversion(entry) == IsSome(entry) /\ IsSome(Get(entry).conversion)

\* C6: after a failed conversion the pipeline goes on to the withdrawal step,
\* no step of it raises into the error handler or sets Error, the record it
\* appends has no conversion, and its reset ends in Idle
C6_ConversionFailureNonFatal ==
    [][\A w \in Workers :
          /\ (pc[w] = "conv" /\ Steps(w) /\ cyc'[w].conv = "failed")
                => pc'[w] = "wd" /\ sm' = sm
          /\ (cyc[w].conv = "failed" /\ Steps(w))
                => /\ pc'[w] \notin {"cb_err", "cb_alert"}
                   /\ sm'.current_state = ERROR => sm.current_state = ERROR
                   /\ pc[w] = "wd" => pc'[w] \in {"wd_reset", "reset1"}
                   /\ Len(sm'.trade_history) > Len(sm.trade_history)
                         => ~HasConversion(sm'.trade_history[Len(sm'.trade_history)])
                   /\ pc[w] = "reset2" => sm'.current_state = IDLE]_vars

\* C7: when the close raises, the error handler sets Error, requests the
\* error alert and keeps active_position; the cycle goes no further
C7_CloseFailureIsFatal ==
    [][\A w \in Workers :
          (pc[w] = "cb_err" /\ cyc[w].close = "raised" /\ Steps(w))
          => /\ sm'.current_state = ERROR
             /\ sm'.active_position = sm.active_position
             /\ pc'[w] = "cb_alert"]_vars

\* C8: a worker invokes the callback at most once, and only in a poll whose
\* PnL is at least the threshold
C8_AtMostOneSignal ==
    [][\A w \in Workers :
          fires'[w] # fires[w]
          => fires[w] = 0 /\ loc'[w].pnl >= mon.profit_threshold]_vars

\* C9: a worker whose running session was stopped never invokes the callback
C9_NoSignalAfterStop ==
    [][\A w \in Workers : w \in stop_seen => fires'[w] = fires[w]]_vars

\* C10: at most one worker is polling at any time
C10_SinglePollingWorker ==
    Cardinality({w \in Workers : pc[w] = "poll"}) <= 1

\* C12: in every reachable state other than Error, active_position is set
\* exactly when the state is Monitoring or ClosingPosition
C12_ActivePositionIffMonitoringOrClosing ==
    sm.current_state # ERROR
        => (IsSome(sm.active_position) <=> sm.current_state \in {MONITORING, CLOSING_POSITION})

\* C15: once position_closed has recorded a successful close, the callback
\* goes on to the conversion step whatever the position-closed alert does
C15_NotifierFailureNonFatal ==
    [][\A w \in Workers :
          (/\ pc[w] = "pos_closed" /\ Steps(w)
           /\ IsSome(sm.active_position) /\ sm'.active_position = None)
          => pc'[w] = "conv"]_vars

\* C16: a failing Store write is swallowed: position_opened leaves Monitoring
\* with the cycle going on to the monitor, and position_closed called with an
\* active position clears it and leaves Converting
C16_StoreFailureSwallowed ==
    [][/\ \A t \in CycleThreads :
             (pc[t] = "cycle" /\ Steps(t) /\ sm'.current_state = MONITORING)
             => pc'[t] = "mon_check"
       /\ \A w \in Workers :
             (pc[w] = "pos_closed" /\ Steps(w) /\ IsSome(sm.active_position))
             => sm'.active_position = None /\ sm'.current_state = CONVERTING]_vars

\* C18: when start(), in Idle with a configuration and no position on the
\* exchange, has its opening order filled, the state becomes Monitoring,
\* active_position is the exchange's position, the config's entry price is
\* copied from it, and the cycle goes on to start the monitoring session
C18_OpenLeadsToMonitoring ==
    [][(/\ pc[Ctl] = "cycle" /\ Steps(Ctl)
        /\ sm.current_state = IDLE /\ exPos = None /\ IsSome(exPos'))
       => /\ sm'.current_state = MONITORING
          /\ sm'.active_position = exPos'
          /\ Get(sm'.trading_config).entry_price = Some(Get(exPos').entryPrice)
          /\ pc'[Ctl] = "mon_check"]_vars

\* ===================================== StateManager, statement by statement
\* Two threads call one StateManager operation each, the control thread (or
\* the operator) and the callback worker, and interleave between statements.
RaceThreads == {Ctl, 1}
CtlOps == {"force_reset", "handle_error"}
WorkerOps == {"position_closed", "auto_reset"}

\* the statements of an operation in program order; set_state is the
\* assignment of current_state followed by _save_state, which builds
\* state_data from the three fields and then writes it to the Store
Program(op) ==
    CASE op = "force_reset" ->
             <<"state_idle", "active_none", "last_none", "config_reset", "build", "write">>
      [] op = "handle_error" ->
             <<"state_error", "build", "write", "error_log">>
      [] op = "position_closed" ->
             <<"record", "update_trade", "active_none", "state_converting", "build", "write">>
      [] op = "auto_reset" ->
             <<"state_resetting", "build", "write", "config_reset", "last_none",
               "state_idle", "build", "write">>
      [] OTHER -> <<>>

\* the arguments the callback passes to position_closed
RaceCloseData(side) ==
    [id |-> "close", symbol |-> Symbol, side |-> IF side = "long" THEN "sell" ELSE "buy",
     amount |-> Quantity]
RaceProfit == 1

\* the effect of an assignment statement on the StateManager
Exec(s, stmt) ==
    CASE stmt = "state_idle" -> [s EXCEPT !.current_state = IDLE]
      [] stmt = "state_error" -> [s EXCEPT !.current_state = ERROR]
      [] stmt = "state_converting" -> [s EXCEPT !.current_state = CONVERTING]
      [] stmt = "state_resetting" -> [s EXCEPT !.current_state = RESETTING]
      [] stmt = "active_none" -> [s EXCEPT !.active_position = None]
      [] stmt = "last_none" -> [s EXCEPT !.last_closed_position = None]
      [] stmt = "config_reset" ->
             IF IsSome(s.trading_config)
             THEN [s EXCEPT !.trading_config = Some(ConfigReset(Get(s.trading_config)))]
             ELSE s
      [] OTHER -> s

\* the values _save_state reads: current_state, trading_config, active_position
Persisted(s) ==
    [current_state |-> s.current_state, trading_config |-> s.trading_config,
     active_position |-> s.active_position]

\* the StateManager of a bot that is monitoring its position when the signal
\* fires and the callback has set ClosingPosition
MonitoredPosition(side) ==
    [symbol |-> Symbol, side |-> side, contracts |-> Quantity, entryPrice |-> EntryPrice]
ClosingStart(side) ==
    set_state(position_opened(initialize_trading_config(InitSM, TradingConfig(side, 1), TRUE),
                              MonitoredPosition(side), TRUE),
              CLOSING_POSITION, TRUE)
\* the StateManager when the worker calls the operation
RaceStart(op, side) ==
    IF op = "position_closed" THEN ClosingStart(side)
    ELSE position_closed(ClosingStart(side), RaceCloseData(side), RaceProfit, TRUE, TRUE)

RaceLoc(op) == [op |-> op, at |-> 1, state_data |-> None]

RaceInit ==
    \E side \in Sides, opC \in CtlOps, opW \in WorkerOps :
        /\ sm = RaceStart(opW, side)
        /\ pc = [t \in Threads |->
                    IF t = Ctl THEN Program(opC)[1]
                    ELSE IF t = 1 THEN Program(opW)[1] ELSE "unborn"]
        /\ loc = [t \in Threads |->
                    IF t = Ctl THEN RaceLoc(opC)
                    ELSE IF t = 1 THEN RaceLoc(opW) ELSE RaceLoc("none")]
        /\ running = TRUE
        /\ mon = [monitoring |-> FALSE, profit_threshold |-> 1,
                  monitored_symbol |-> Some(Symbol), monitor_thread |-> Some(1),
                  on_profit_reached |-> Some(OnProfitReached)]
        /\ exPos = None
        /\ cyc = [w \in Workers |-> InitCyc]
        /\ fires = [w \in Workers |-> IF w = 1 THEN 1 ELSE 0]
        /\ launched = 1
        /\ faults = 0
        /\ ops = 0
        /\ stop_seen = {}

\* thread t goes on to its next statement, or returns
Advance(t, l) ==
    IF l.at < Len(Program(l.op))
    THEN /\ pc' = [pc EXCEPT ![t] = Program(l.op)[l.at + 1]]
         /\ loc' = [loc EXCEPT ![t] = [l EXCEPT !.at = @ + 1]]
    ELSE /\ pc' = [pc EXCEPT ![t] = "ret"]
         /\ loc' = [loc EXCEPT ![t] = l]
\* an exception leaves the operation
Raise(t) ==
    /\ pc' = [pc EXCEPT ![t] = "ret"]
    /\ UNCHANGED loc

\* an assignment to current_state, active_position, last_closed_position or
\* the dynamic fields of trading_config
RaceAssign(t) ==
    /\ pc[t] \in {"state_idle", "state_error", "state_converting", "state_resetting",
                  "active_none", "last_none", "config_reset"}
    /\ sm' = Exec(sm, pc[t])
    /\ Advance(t, loc[t])
    /\ UNCHANGED <<running, mon, exPos, cyc, fires, launched, faults, ops, stop_seen>>

\* position_closed: self.last_closed_position = {**self.active_position, ...},
\* where {**None} raises TypeError
RaceRecord(t) ==
    /\ pc[t] = "record"
    /\ IF sm.active_position = None
       THEN Raise(t) /\ UNCHANGED sm
       ELSE /\ sm' = [sm EXCEPT !.last_closed_position =
                        Some(ClosedRecord(Get(sm.active_position),
                                          RaceCloseData(Get(sm.active_position).side),
                                          RaceProfit))]
            /\ Advance(t, loc[t])
    /\ UNCHANGED <<running, mon, exPos, cyc, fires, launched, faults, ops, stop_seen>>

\* db.update_trade_status in position_closed and db.save_error_log in
\* handle_error: a failure is re-raised to the caller
RaceStoreCall(t) ==
    /\ pc[t] \in {"update_trade", "error_log"}
    /\ \E dbOk \in BOOLEAN :
         /\ Charge(F(dbOk))
         /\ IF dbOk THEN Advance(t, loc[t]) ELSE Raise(t)
    /\ UNCHANGED <<sm, running, mon, exPos, cyc, fires, launched, ops, stop_seen>>

\* _save_state: state_data = {...}
RaceBuild(t) ==
    /\ pc[t] = "build"
    /\ Advance(t, [loc[t] EXCEPT !.state_data = Some(Persisted(sm))])
    /\ UNCHANGED <<sm, running, mon, exPos, cyc, fires, launched, faults, ops, stop_seen>>

\* _save_state: self.db.save_bot_state(state_data); a failure is swallowed
RaceWrite(t) ==
    /\ pc[t] = "write"
    /\ \E ok \in BOOLEAN :
         /\ Charge(F(ok))
         /\ sm' = IF ok THEN [sm EXCEPT !.snapshot = loc[t].state_data] ELSE sm
    /\ Advance(t, loc[t])
    /\ UNCHANGED <<running, mon, exPos, cyc, fires, launched, ops, stop_seen>>

RaceNext ==
    \E t \in RaceThreads :
        \/ RaceAssign(t) \/ RaceRecord(t) \/ RaceStoreCall(t)
        \/ RaceBuild(t) \/ RaceWrite(t)

RaceSpec == RaceInit /\ [][RaceNext]_vars

\* the results of an operation run alone on s, over the Store's outcomes
Atomic(op, s) ==
    CASE op = "force_reset" -> {force_reset(s, TRUE)}
      [] op = "handle_error" -> {handle_error(s, TRUE)}
      [] op = "auto_reset" -> {auto_reset_end(auto_reset_begin(s, TRUE), TRUE)}
      [] op = "position_closed" ->
             IF s.active_position = None THEN {s}
             ELSE {position_closed(s, RaceCloseData(Get(s.active_position).side),
                                   RaceProfit, dbOk, TRUE) : dbOk \in BOOLEAN}
      [] OTHER -> {s}

\* state, config, ActivePosition and ClosedPositionRecord
Memory(s) ==
    <<s.current_state, s.trading_config, s.active_position, s.last_closed_position>>

\* the memories left by running first, then second, one after the other
Serial(first, second, s) ==
    {Memory(s2) : s2 \in UNION {Atomic(second, s1) : s1 \in Atomic(first, s)}}

BothReturned == pc[Ctl] = "ret" /\ pc[1] = "ret"

\* C11: when the two operations have returned, state, config, active_position
\* and last_closed_position are what running them one after the other, in one
\* of the two orders, leaves
C11_OperationsSerialized ==
    BothReturned =>
        LET s == RaceStart(loc[1].op, Get(sm.trading_config).side)
        IN  Memory(sm) \in Serial(loc[Ctl].op, loc[1].op, s)
                             \cup Serial(loc[1].op, loc[Ctl].op, s)

\* C13: when both operations have returned and no Store write has failed, the
\* persisted snapshot holds the current_state, trading_config and
\* active_position in memory
C13_SnapshotMatchesMemory ==
    (BothReturned /\ faults = 0) => sm.snapshot = Some(Persisted(sm))

\* ============================================== StateManager, call by call
\* One caller issues StateManager operations in any order, each run to its
\* end, on a StateManager constructed over an empty Store; a restart
\* constructs a new StateManager from the Store.
\* completed trade cycles recorded in trade_history in a run
MaxHistory == 1

\* datetime.isoformat and datetime.fromisoformat: the datetime "now" and its text
isoformat(d) == IF d = "now" THEN "iso:now" ELSE "iso:other"
fromisoformat(text) == IF text = "iso:now" THEN "now" ELSE "other"

\* TradingConfig.to_dict
to_dict(c) ==
    [symbol |-> c.symbol, side |-> c.side, quantity |-> c.quantity, leverage |-> c.leverage,
     margin_mode |-> c.margin_mode, profit_threshold |-> c.profit_threshold,
     entry_price |-> c.entry_price,
     position_opened_at |-> IF IsSome(c.position_opened_at)
                            THEN Some(isoformat(Get(c.position_opened_at))) ELSE None]

\* from_dict without the parsing of the timestamp
from_dict_unparsed(data) ==
    [symbol |-> data.symbol, side |-> data.side, quantity |-> data.quantity,
     leverage |-> data.leverage, margin_mode |-> data.margin_mode,
     profit_threshold |-> data.profit_threshold, entry_price |-> data.entry_price,
     position_opened_at |-> data.position_opened_at]

\* TradingConfig.from_dict: the timestamp is parsed when present, then cls(**data)
from_dict(data) ==
    [symbol |-> data.symbol, side |-> data.side, quantity |-> data.quantity,
     leverage |-> data.leverage, margin_mode |-> data.margin_mode,
     profit_threshold |-> data.profit_threshold, entry_price |-> data.entry_price,
     position_opened_at |-> IF IsSome(data.position_opened_at)
                            THEN Some(fromisoformat(Get(data.position_opened_at))) ELSE None]

\* json.dumps and json.loads on dicts of strings, numbers and None
json_dumps(value) == <<"json", value>>
json_loads(text) == text[2]

\* the row _save_state hands to db.save_bot_state, from the values it reads
state_data(p) ==
    [current_state |-> p.current_state,
     trading_config |-> IF IsSome(p.trading_config)
                        THEN Some(json_dumps(to_dict(Get(p.trading_config)))) ELSE None,
     active_position |-> IF IsSome(p.active_position)
                         THEN Some(json_dumps(Get(p.active_position))) ELSE None]

\* StateManager.__init__ followed by _load_state on the row of get_bot_state
\* (None when the Store is empty or the read fails)
load_state(row) ==
    IF row = None THEN InitSM
    ELSE [InitSM EXCEPT
            !.current_state = Get(row).current_state,
            !.trading_config = IF IsSome(Get(row).trading_config)
                               THEN Some(from_dict(json_loads(Get(Get(row).trading_config))))
                               ELSE None,
            !.active_position = IF IsSome(Get(row).active_position)
                                THEN Some(json_loads(Get(Get(row).active_position)))
                                ELSE None]

\* DatabaseManager.get_bot_state: the last row written, None on a failure
get_bot_state(snapshot, readOk) ==
    IF readOk /\ IsSome(snapshot) THEN Some(state_data(Get(snapshot))) ELSE None

\* StateManager.auto_reset run to its end
auto_reset(s, ok1, ok2) == auto_reset_end(auto_reset_begin(s, ok1), ok2)

\* the withdrawal result the callback passes to withdrawal_completed
ApiWithdrawal == [id |-> "w", amount |-> 10]

ApiInit ==
    /\ sm = InitSM
    /\ running = FALSE
    /\ mon = [monitoring |-> FALSE, profit_threshold |-> 0, monitored_symbol |-> None,
              monitor_thread |-> None, on_profit_reached |-> None]
    /\ exPos = None
    /\ pc = [t \in Threads |-> IF t \in Workers THEN "unborn" ELSE "idle"]
    /\ loc = [t \in Threads |-> InitLoc]
    /\ cyc = [w \in Workers |-> InitCyc]
    /\ fires = [w \in Workers |-> 0]
    /\ launched = 0
    /\ faults = 0
    /\ ops = 0
    /\ stop_seen = {}

\* the caller has called operation op, which has returned or raised
Called(op) ==
    /\ pc' = [pc EXCEPT ![Ctl] = op]
    /\ UNCHANGED <<running, mon, exPos, loc, cyc, fires, launched, ops, stop_seen>>

ApiInitializeConfig ==
    /\ \E side \in Sides, threshold \in Thresholds, ok \in BOOLEAN :
         Charge(F(ok)) /\ sm' = initialize_trading_config(sm, TradingConfig(side, threshold), ok)
    /\ Called("initialize_trading_config")

ApiSetState ==
    /\ \E new_state \in BotState, ok \in BOOLEAN :
         Charge(F(ok)) /\ sm' = set_state(sm, new_state, ok)
    /\ Called("set_state")

ApiPositionOpened ==
    /\ \E side \in Sides, ok \in BOOLEAN :
         Charge(F(ok)) /\ sm' = position_opened(sm, MonitoredPosition(side), ok)
    /\ Called("position_opened")

\* position_closed raises TypeError, with nothing changed, when no position is active
ApiPositionClosed ==
    /\ IF sm.active_position = None
       THEN UNCHANGED <<sm, faults>>
       ELSE \E dbOk \in BOOLEAN, ok \in BOOLEAN :
              /\ Charge(F(dbOk) + F(ok))
              /\ dbOk \/ ok
              /\ sm' = position_closed(sm, RaceCloseData(Get(sm.active_position).side),
                                       RaceProfit, dbOk, ok)
    /\ Called("position_closed")

ApiWithdrawalCompleted ==
    /\ Len(sm.trade_history) < MaxHistory
    /\ \E ok1 \in BOOLEAN, ok2 \in BOOLEAN :
         /\ Charge(F(ok1) + F(ok2))
         /\ sm' = auto_reset_end(withdrawal_completed(sm, ApiWithdrawal, ok1), ok2)
    /\ Called("withdrawal_completed")

ApiAutoReset ==
    /\ \E ok1 \in BOOLEAN, ok2 \in BOOLEAN :
         /\ Charge(F(ok1) + F(ok2))
         /\ sm' = auto_reset(sm, ok1, ok2)
    /\ Called("auto_reset")

\* handle_error: db.save_error_log raises after set_state(ERROR)
ApiHandleError ==
    /\ \E ok \in BOOLEAN : Charge(F(ok)) /\ sm' = handle_error(sm, ok)
    /\ Called("handle_error")

ApiRecoverFromError ==
    /\ \E ok \in BOOLEAN : Charge(F(ok)) /\ sm' = recover_from_error(sm, ok)
    /\ Called("recover_from_error")

ApiForceReset ==
    /\ \E ok \in BOOLEAN : Charge(F(ok)) /\ sm' = force_reset(sm, ok)
    /\ Called("force_reset")

\* the process restarts: StateManager(db) loads what the Store holds
Restart ==
    /\ \E readOk \in BOOLEAN :
         /\ Charge(F(readOk))
         /\ sm' = [load_state(get_bot_state(sm.snapshot, readOk)) EXCEPT !.snapshot = sm.snapshot]
    /\ Called("restart")

ApiNext ==
    \/ ApiInitializeConfig \/ ApiSetState \/ ApiPositionOpened \/ ApiPositionClosed
    \/ ApiWithdrawalCompleted \/ ApiAutoReset \/ ApiHandleError \/ ApiRecoverFromError
    \/ ApiForceReset \/ Restart

ApiSpec == ApiInit /\ [][ApiNext]_vars

\* the static fields of a TradingConfig
StaticFields(c) ==
    <<c.symbol, c.side, c.quantity, c.leverage, c.margin_mode, c.profit_threshold>>

C19_ErrorAndRecovery ==
    [][/\ pc'[Ctl] = "handle_error"
             => sm'.current_state = ERROR /\ sm'.active_position = sm.active_position
       /\ (pc[Ctl] = "handle_error" /\ pc'[Ctl] = "recover_from_error")
             => /\ sm'.current_state = IF IsSome(sm.active_position) THEN MONITORING ELSE IDLE
                /\ sm'.active_position = sm.active_position]_vars

\* recover_from_error has returned to Monitoring with the position kept
C19_Witness ==
    /\ pc[Ctl] = "recover_from_error"
    /\ sm.current_state = MONITORING
    /\ IsSome(sm.active_position)
    /\ IsSome(sm.last_closed_position)

\* ============================= PositionMonitor.check_liquidation, by statement
\* The control thread calls check_liquidation once per round of the loop of
\* _run_trading_cycle while the exchange may liquidate the position.
LiqLoc == [balance |-> None, positions |-> None, result |-> None]

\* the StateManager of a bot that has opened its position
MonitoringStart(side) ==
    position_opened(initialize_trading_config(InitSM, TradingConfig(side, 1), TRUE),
                    MonitoredPosition(side), TRUE)

LiqInit ==
    \E side \in Sides :
        /\ sm = MonitoringStart(side)
        /\ running = TRUE
        /\ mon = [monitoring |-> TRUE, profit_threshold |-> 1,
                  monitored_symbol |-> Some(Symbol), monitor_thread |-> Some(1),
                  on_profit_reached |-> Some(OnProfitReached)]
        /\ exPos = Some(MonitoredPosition(side))
        /\ pc = [t \in Threads |->
                    IF t = Ctl THEN "fetch_balance" ELSE IF t = 1 THEN "check" ELSE "unborn"]
        /\ loc = [t \in Threads |-> LiqLoc]
        /\ cyc = [w \in Workers |-> InitCyc]
        /\ fires = [w \in Workers |-> 0]
        /\ launched = 1
        /\ faults = 0
        /\ ops = 0
        /\ stop_seen = {}

\* the except clause of check_liquidation: return False
LiqReturn(result) ==
    /\ pc' = [pc EXCEPT ![Ctl] = "ret"]
    /\ loc' = [loc EXCEPT ![Ctl].result = Some(result)]

\* balance = self.exchange.get_account_balance(), which raises on a Gateway failure
LiqFetchBalance ==
    /\ pc[Ctl] = "fetch_balance"
    /\ \E gwOk \in BOOLEAN, total_equity \in Equities :
         /\ Charge(F(gwOk))
         /\ IF gwOk
            THEN /\ pc' = [pc EXCEPT ![Ctl] = "fetch_positions"]
                 /\ loc' = [loc EXCEPT ![Ctl].balance = Some(total_equity)]
            ELSE LiqReturn(check_liquidation(exPos, FALSE, total_equity))
    /\ UNCHANGED <<sm, running, mon, exPos, cyc, fires, launched, ops, stop_seen>>

\* positions = self.exchange.get_open_positions(), which raises on a Gateway failure
LiqFetchPositions ==
    /\ pc[Ctl] = "fetch_positions"
    /\ \E gwOk \in BOOLEAN :
         /\ Charge(F(gwOk))
         /\ IF gwOk
            THEN /\ pc' = [pc EXCEPT ![Ctl] = "compare"]
                 /\ loc' = [loc EXCEPT ![Ctl].positions = Some(exPos)]
            ELSE LiqReturn(check_liquidation(exPos, FALSE, Get(loc[Ctl].balance)))
    /\ UNCHANGED <<sm, running, mon, exPos, cyc, fires, launched, ops, stop_seen>>

\* if total_equity < 1.0 and len(positions) == 0: return True; return False
LiqCompare ==
    /\ pc[Ctl] = "compare"
    /\ LiqReturn(check_liquidation(Get(loc[Ctl].positions), TRUE, Get(loc[Ctl].balance)))
    /\ UNCHANGED <<sm, running, mon, exPos, cyc, fires, launched, faults, ops, stop_seen>>

\* no liquidation: the loop of _run_trading_cycle calls check_liquidation again
LiqAgain ==
    /\ pc[Ctl] = "ret"
    /\ loc[Ctl].result = Some(FALSE)
    /\ pc' = [pc EXCEPT ![Ctl] = "fetch_balance"]
    /\ loc' = [loc EXCEPT ![Ctl] = LiqLoc]
    /\ UNCHANGED <<sm, running, mon, exPos, cyc, fires, launched, faults, ops, stop_seen>>

LiqNext ==
    \/ LiqFetchBalance \/ LiqFetchPositions \/ LiqCompare \/ LiqAgain \/ Liquidate

LiqSpec == LiqInit /\ [][LiqNext]_vars

\* C20: check_liquidation returns true exactly when both fetches succeeded,
\* the equity is strictly below 1 and no position is open; an equity of 1, an
\* open position or a failed fetch give false
C20_LiquidationPredicate ==
    IsSome(loc[Ctl].result)
        => Get(loc[Ctl].result) =
               (/\ IsSome(loc[Ctl].balance) /\ IsSome(loc[Ctl].positions)
                /\ Get(loc[Ctl].balance) < 1
                /\ Get(loc[Ctl].positions) = None)

\* check_liquidation has returned true on an equity of 0 and no open position
C20_Witness ==
    /\ pc[Ctl] = "ret"
    /\ loc[Ctl].result = Some(TRUE)
    /\ loc[Ctl].balance = Some(0)
    /\ loc[Ctl].positions = Some(None)

C27_AutoResetAfterWithdrawal ==
    [][\A w \in Workers :
          /\ (/\ cyc[w].close = "ok" /\ Steps(w)
              /\ pc[w] \in {"pos_closed", "conv", "wd", "wd_reset", "reset1"})
                => pc'[w] \in {"conv", "wd", "wd_reset", "reset1", "reset2"}
          /\ (Steps(w) /\ pc'[w] = "reset1") => pc[w] \in {"wd", "wd_reset"}]_vars

\* C28: while the run flag is cleared no position is opened and no worker is
\* launched, also when stop() was called during a pipeline
C28_NothingStartsAfterStop ==
    [][(~running /\ ~running')
       => /\ launched' = launched
          /\ exPos = None => exPos' = None]_vars

\* what force_reset leaves in memory: Idle, no active position, no pending
\* record, the dynamic config fields cleared, the static fields and
\* trade_history as before
ForceResetMemory ==
    /\ sm'.current_state = IDLE
    /\ sm'.active_position = None
    /\ sm'.last_closed_position = None
    /\ sm'.trade_history = sm.trade_history
    /\ IsSome(sm'.trading_config) <=> IsSome(sm.trading_config)
    /\ IsSome(sm.trading_config)
          => /\ Get(sm'.trading_config).entry_price = None
             /\ Get(sm'.trading_config).position_opened_at = None
             /\ StaticFields(Get(sm'.trading_config)) = StaticFields(Get(sm.trading_config))

C24_HistoryAppendOnly ==
    [][/\ Len(sm'.trade_history) >= Len(sm.trade_history)
       /\ \A i \in 1..Len(sm.trade_history) : sm'.trade_history[i] = sm.trade_history[i]]_vars


\* =============================== TradingBot._run_trading_cycle, from any state
\* start() runs the cycle in whatever state the StateManager is, with or
\* without a position on the exchange.
OpenInit ==
    \E side \in Sides, st \in BotState, held \in {None} \cup {Some(MonitoredPosition(s)) : s \in Sides} :
        /\ sm = set_state(initialize_trading_config(InitSM, TradingConfig(side, 1), TRUE), st, TRUE)
        /\ running = TRUE
        /\ mon = [monitoring |-> FALSE, profit_threshold |-> 0, monitored_symbol |-> None,
                  monitor_thread |-> None, on_profit_reached |-> None]
        /\ exPos = held
        /\ pc = [t \in Threads |-> IF t = Ctl THEN "cycle" ELSE "unborn"]
        /\ loc = [t \in Threads |-> InitLoc]
        /\ cyc = [w \in Workers |-> InitCyc]
        /\ fires = [w \in Workers |-> 0]
        /\ launched = 0
        /\ faults = 0
        /\ ops = 0
        /\ stop_seen = {}

OpenNext == RunCycle(Ctl) \/ OpenError(Ctl) \/ StartError

OpenSpec == OpenInit /\ [][OpenNext]_vars

\* C22: can_open_position() is true exactly in Idle and Resetting, and a step
\* of the cycle that places the opening order (the exchange position changes,
\* or _open_position raises) starts in a state where it is true
C22_OpenOnlyWhenAllowed ==
    [][/\ can_open_position(sm) <=> sm.current_state \in {IDLE, RESETTING}
       /\ (/\ pc[Ctl] = "cycle" /\ Steps(Ctl)
           /\ exPos' # exPos \/ pc'[Ctl] = "open_err")
             => sm.current_state \in {IDLE, RESETTING}]_vars

\* the order was placed from Idle or Resetting: the new position is recorded
\* and db.save_trade raised inside _open_position
C22_Witness ==
    /\ pc[Ctl] = "open_err"
    /\ IsSome(exPos)
    /\ sm.active_position = exPos
    /\ sm.current_state = MONITORING


\* ================================== OrderExecutor.open_position / close_position
\* A caller opens and closes positions through the OrderExecutor; every call
\* the executor makes to the exchange is logged in loc[Ctl].calls with its
\* arguments and whether the exchange accepted it.
MaxContracts == 2
OpenSides == {"long", "short", "buy"}
Leverages == {5, 10}
MarginModes == {"isolated", "cross"}

OrderLoc == [op |-> "none", side |-> "none", leverage |-> 0, margin_mode |-> "none",
             position |-> None, calls |-> <<>>, result |-> None]

OrderInit ==
    \E held \in {None} \cup {Some(MonitoredPosition(s)) : s \in Sides} :
        /\ sm = InitSM
        /\ running = FALSE
        /\ mon = [monitoring |-> FALSE, profit_threshold |-> 0, monitored_symbol |-> None,
                  monitor_thread |-> None, on_profit_reached |-> None]
        /\ exPos = held
        /\ pc = [t \in Threads |-> IF t = Ctl THEN "call" ELSE "unborn"]
        /\ loc = [t \in Threads |-> OrderLoc]
        /\ cyc = [w \in Workers |-> InitCyc]
        /\ fires = [w \in Workers |-> 0]
        /\ launched = 0
        /\ faults = 0
        /\ ops = 0
        /\ stop_seen = {}

\* a call of the exchange client, accepted or raising
Log(call, accepted) == Append(loc[Ctl].calls, [call EXCEPT !.accepted = accepted])

\* except Exception as e: raise OrderExecutionError(...)
OrderRaise(call) ==
    /\ pc' = [pc EXCEPT ![Ctl] = "raised"]
    /\ loc' = [loc EXCEPT ![Ctl].calls = Log(call, FALSE)]

\* executor.open_position(symbol, side, quantity, leverage, margin_mode)
OrdCallOpen ==
    /\ pc[Ctl] = "call"
    /\ IsSome(exPos) => Get(exPos).contracts < MaxContracts
    /\ \E side \in OpenSides, leverage \in Leverages, margin_mode \in MarginModes :
         loc' = [loc EXCEPT ![Ctl] = [OrderLoc EXCEPT !.op = "open", !.side = side,
                                         !.leverage = leverage, !.margin_mode = margin_mode]]
    /\ pc' = [pc EXCEPT ![Ctl] = "set_leverage"]
    /\ UNCHANGED <<sm, running, mon, exPos, cyc, fires, launched, faults, ops, stop_seen>>

\* self.exchange.set_leverage(symbol, leverage)
OrdSetLeverage ==
    /\ pc[Ctl] = "set_leverage"
    /\ LET call == [fn |-> "set_leverage", symbol |-> Symbol, arg |-> loc[Ctl].leverage,
                    accepted |-> TRUE]
       IN  \E gwOk \in BOOLEAN :
             /\ Charge(F(gwOk))
             /\ IF gwOk
                THEN /\ pc' = [pc EXCEPT ![Ctl] = "set_margin_mode"]
                     /\ loc' = [loc EXCEPT ![Ctl].calls = Log(call, TRUE)]
                ELSE OrderRaise(call)
    /\ UNCHANGED <<sm, running, mon, exPos, cyc, fires, launched, ops, stop_seen>>

\* self.exchange.set_margin_mode(symbol, margin_mode)
OrdSetMarginMode ==
    /\ pc[Ctl] = "set_margin_mode"
    /\ LET call == [fn |-> "set_margin_mode", symbol |-> Symbol, arg |-> loc[Ctl].margin_mode,
                    accepted |-> TRUE]
       IN  \E gwOk \in BOOLEAN :
             /\ Charge(F(gwOk))
             /\ IF gwOk
                THEN /\ pc' = [pc EXCEPT ![Ctl] = "create_order"]
                     /\ loc' = [loc EXCEPT ![Ctl].calls = Log(call, TRUE)]
                ELSE OrderRaise(call)
    /\ UNCHANGED <<sm, running, mon, exPos, cyc, fires, launched, ops, stop_seen>>

\* order = self.exchange.create_market_order(symbol, order_side, quantity); return order
OrdCreateOrder ==
    /\ pc[Ctl] = "create_order"
    /\ LET call == [fn |-> "create_market_order", symbol |-> Symbol,
                    side |-> order_side(loc[Ctl].side), amount |-> Quantity,
                    reduceOnly |-> FALSE, accepted |-> TRUE]
       IN  \E orderOk \in BOOLEAN :
             /\ Charge(F(orderOk))
             /\ IF orderOk
                THEN /\ pc' = [pc EXCEPT ![Ctl] = "returned"]
                     /\ loc' = [loc EXCEPT ![Ctl].calls = Log(call, TRUE),
                                           ![Ctl].result = Some([id |-> "open", side |-> call.side,
                                                                 amount |-> call.amount])]
                     /\ exPos' = AfterOpenOrder(exPos, IF call.side = "buy" THEN "long" ELSE "short")
                ELSE OrderRaise(call) /\ UNCHANGED exPos
    /\ UNCHANGED <<sm, running, mon, cyc, fires, launched, ops, stop_seen>>

\* executor.close_position(symbol, position_side)
OrdCallClose ==
    /\ pc[Ctl] = "call"
    /\ \E position_side \in Sides :
         loc' = [loc EXCEPT ![Ctl] = [OrderLoc EXCEPT !.op = "close", !.side = position_side]]
    /\ pc' = [pc EXCEPT ![Ctl] = "get_position"]
    /\ UNCHANGED <<sm, running, mon, exPos, cyc, fires, launched, faults, ops, stop_seen>>

\* position = self.get_position_by_symbol(symbol); if not position: return None
OrdGetPosition ==
    /\ pc[Ctl] = "get_position"
    /\ \E gwOk \in BOOLEAN :
         LET position == get_position_by_symbol(exPos, gwOk)
         IN  /\ Charge(F(gwOk))
             /\ loc' = [loc EXCEPT ![Ctl].position = position]
             /\ pc' = [pc EXCEPT ![Ctl] = IF position = None THEN "returned" ELSE "close_order"]
    /\ UNCHANGED <<sm, running, mon, exPos, cyc, fires, launched, ops, stop_seen>>

\* amount = abs(float(position['contracts'])); the reduce-only market order on
\* closing_side; the exchange rejects a reduce-only order that would not
\* reduce the position it holds
OrdCloseOrder ==
    /\ pc[Ctl] = "close_order"
    /\ LET position == Get(loc[Ctl].position)
           amount == IF position.contracts < 0 THEN 0 - position.contracts ELSE position.contracts
           call == [fn |-> "create_market_order", symbol |-> Symbol,
                    side |-> closing_side(loc[Ctl].side), amount |-> amount,
                    reduceOnly |-> TRUE, accepted |-> TRUE]
       IN  \E gwOk \in BOOLEAN, orderOk \in BOOLEAN :
             LET r == close_position(exPos, loc[Ctl].side, gwOk, orderOk)
             IN  /\ gwOk
                 /\ Charge(F(orderOk))
                 /\ IF r.kind = "order"
                    THEN /\ pc' = [pc EXCEPT ![Ctl] = "returned"]
                         /\ loc' = [loc EXCEPT ![Ctl].calls = Log(call, TRUE),
                                               ![Ctl].result = r.order]
                         /\ exPos' = None
                    ELSE OrderRaise(call) /\ UNCHANGED exPos
    /\ UNCHANGED <<sm, running, mon, cyc, fires, launched, ops, stop_seen>>

\* the caller makes its next call
OrdAgain ==
    /\ pc[Ctl] \in {"returned", "raised"}
    /\ pc' = [pc EXCEPT ![Ctl] = "call"]
    /\ loc' = [loc EXCEPT ![Ctl] = OrderLoc]
    /\ UNCHANGED <<sm, running, mon, exPos, cyc, fires, launched, faults, ops, stop_seen>>

OrderNext ==
    \/ OrdCallOpen \/ OrdSetLeverage \/ OrdSetMarginMode \/ OrdCreateOrder
    \/ OrdCallClose \/ OrdGetPosition \/ OrdCloseOrder \/ OrdAgain

OrderSpec == OrderInit /\ [][OrderNext]_vars


\* the calls open_position makes when nothing fails, in order
OpenCalls(side, leverage, margin_mode) ==
    << [fn |-> "set_leverage", symbol |-> Symbol, arg |-> leverage],
       [fn |-> "set_margin_mode", symbol |-> Symbol, arg |-> margin_mode],
       [fn |-> "create_market_order", symbol |-> Symbol,
        side |-> IF side = "long" THEN "buy" ELSE "sell", amount |-> Quantity,
        reduceOnly |-> FALSE] >>

\* a logged call without its outcome
Made(call) == [f \in (DOMAIN call) \ {"accepted"} |-> call[f]]

C26_CloseOrder ==
    LET c == loc[Ctl].calls
    IN  loc[Ctl].op = "close"
          => /\ Len(c) <= 1
             /\ Len(c) = 1
                   => /\ IsSome(loc[Ctl].position)
                      /\ Made(c[1]) = [fn |-> "create_market_order", symbol |-> Symbol,
                                       side |-> IF loc[Ctl].side = "long" THEN "sell" ELSE "buy",
                                       amount |-> Get(loc[Ctl].position).contracts,
                                       reduceOnly |-> TRUE]
             /\ (pc[Ctl] \in {"close_order", "returned", "raised"} /\ loc[Ctl].position = None)
                   => pc[Ctl] = "returned" /\ Len(c) = 0 /\ loc[Ctl].result = None
             /\ pc[Ctl] = "raised" <=> (Len(c) = 1 /\ ~c[1].accepted)
             /\ (pc[Ctl] = "returned" /\ IsSome(loc[Ctl].position))
                   => /\ Len(c) = 1 /\ c[1].accepted
                      /\ exPos = None
                      /\ loc[Ctl].result = Some([id |-> "close", symbol |-> Symbol,
                                                 side |-> c[1].side, amount |-> c[1].amount])

\* a long position closed by one accepted reduce-only sell order
C26_Witness ==
    /\ loc[Ctl].op = "close"
    /\ pc[Ctl] = "returned"
    /\ Len(loc[Ctl].calls) = 1
    /\ loc[Ctl].calls[1].side = "sell"
    /\ loc[Ctl].calls[1].accepted
    /\ exPos = None


\* C29: the worker clears the flag in the step that fires the signal, and a
\* start_monitoring made by the callback's cycle restart launches a new worker
\* with the threshold and symbol of the configuration
C29_RestartLaunchesWorker ==
    [][\A w \in Workers :
          /\ (pc[w] = "poll" /\ pc'[w] = "cb_start") => ~mon'.monitoring
          /\ (pc[w] = "mon_check" /\ Steps(w) /\ is_monitoring(sm))
                => /\ launched' = launched + 1
                   /\ pc'[launched'] = "check"
                   /\ mon' = [monitoring |-> TRUE,
                              profit_threshold |-> Get(sm.trading_config).profit_threshold,
                              monitored_symbol |-> Some(Get(sm.trading_config).symbol),
                              monitor_thread |-> Some(launched'),
                              on_profit_reached |-> Some(OnProfitReached)]]_vars


\* ============================================ PositionMonitor with any client
\* A client calls start_monitoring and stop_monitoring at any moment, with any
\* threshold and callback; the workers poll, and a callback may itself call
\* start_monitoring before it returns.
MonThresholds == {1, 2}
MonCallbacks == {OnProfitReached, "on_signal"}

\* the arguments of the client's last start_monitoring and the flag it read
MonLoc == [profit_threshold |-> 0, on_profit_reached |-> None, monitoring |-> FALSE]

MonInit ==
    \E side \in Sides :
        /\ sm = InitSM
        /\ running = FALSE
        /\ mon = [monitoring |-> FALSE, profit_threshold |-> 0, monitored_symbol |-> None,
                  monitor_thread |-> None, on_profit_reached |-> None]
        /\ exPos = Some(MonitoredPosition(side))
        /\ pc = [t \in Threads |-> IF t = Ctl THEN "idle" ELSE "unborn"]
        /\ loc = [t \in Threads |-> IF t = Ctl THEN MonLoc ELSE InitLoc]
        /\ cyc = [w \in Workers |-> InitCyc]
        /\ fires = [w \in Workers |-> 0]
        /\ launched = 0
        /\ faults = 0
        /\ ops = 0
        /\ stop_seen = {}

\* start_monitoring called by thread t, which continues at p:
\* threading.Thread(target=self._monitor_loop).start() unless the flag is set
Launch(t, p, profit_threshold, on_profit_reached) ==
    /\ mon.monitoring \/ launched < MaxWorkers
    /\ mon' = start_monitoring(mon, Symbol, profit_threshold, on_profit_reached, launched + 1)
    /\ IF mon.monitoring
       THEN pc' = [pc EXCEPT ![t] = p] /\ UNCHANGED launched
       ELSE /\ pc' = [pc EXCEPT ![t] = p, ![launched + 1] = "check"]
            /\ launched' = launched + 1

\* the client calls start_monitoring
MonStart ==
    /\ ops < MaxOps
    /\ ops' = ops + 1
    /\ \E profit_threshold \in MonThresholds, on_profit_reached \in MonCallbacks :
         /\ Launch(Ctl, "start_monitoring", profit_threshold, on_profit_reached)
         /\ loc' = [loc EXCEPT ![Ctl] = [profit_threshold |-> profit_threshold,
                                         on_profit_reached |-> Some(on_profit_reached),
                                         monitoring |-> mon.monitoring]]
    /\ UNCHANGED <<sm, running, exPos, cyc, fires, faults, stop_seen>>

\* the client calls stop_monitoring
MonStop ==
    /\ ops < MaxOps
    /\ ops' = ops + 1
    /\ mon' = stop_monitoring(mon)
    /\ pc' = [pc EXCEPT ![Ctl] = "stop_monitoring"]
    /\ UNCHANGED <<sm, running, exPos, loc, cyc, fires, launched, faults, stop_seen>>

\* self.on_profit_reached(position, current_pnl): the callback calls
\* start_monitoring, as the cycle restart of TradingBot does
MonCallbackRestart(w) ==
    /\ pc[w] = "cb_start"
    /\ \E profit_threshold \in MonThresholds, on_profit_reached \in MonCallbacks :
         Launch(w, "cb_restarted", profit_threshold, on_profit_reached)
    /\ UNCHANGED <<sm, running, exPos, loc, cyc, fires, faults, ops, stop_seen>>

\* the callback returns and _monitor_loop leaves its loop (break)
MonCallbackReturn(w) ==
    /\ pc[w] \in {"cb_start", "cb_restarted"}
    /\ pc' = [pc EXCEPT ![w] = "done"]
    /\ UNCHANGED <<sm, running, mon, exPos, loc, cyc, fires, launched, faults, ops, stop_seen>>

MonNext ==
    \/ MonStart
    \/ MonStop
    \/ \E w \in Workers :
         MonitorCheck(w) \/ MonitorPoll(w) \/ MonCallbackRestart(w) \/ MonCallbackReturn(w)

MonSpec == MonInit /\ [][MonNext]_vars

\* a step that is a call of start_monitoring, by the client or by a callback
StartMonitoringCall ==
    \/ ops' = ops + 1 /\ pc'[Ctl] = "start_monitoring"
    \/ \E w \in Workers : pc[w] = "cb_start" /\ pc'[w] = "cb_restarted"

\* C30: start_monitoring called while the flag is set changes nothing: symbol,
\* threshold, callback and worker of the session stay and no worker is launched
C30_StartWhileRunningNoOp ==
    [][(mon.monitoring /\ StartMonitoringCall)
          => /\ mon' = mon
             /\ launched' = launched
             /\ \A w \in Workers : pc[w] = "unborn" => pc'[w] = "unborn"]_vars

\* the client's second call, with another threshold and another callback, found the flag
\* set: one worker, and the session keeps its own threshold and callback
C30_Witness ==
    /\ pc[Ctl] = "start_monitoring"
    /\ loc[Ctl].monitoring
    /\ mon.monitoring
    /\ launched = 1
    /\ loc[Ctl].profit_threshold # mon.profit_threshold
    /\ loc[Ctl].on_profit_reached # mon.on_profit_reached


\* C39: a step that takes the state out of Error is a call of
\* recover_from_error or force_reset by the operator
C39_ErrorIsSticky ==
    [][(sm.current_state = ERROR /\ sm'.current_state # ERROR)
          => /\ ops' = ops + 1
             /\ pc' = pc
             /\ sm'.current_state \in {IDLE, MONITORING}]_vars

\* C38: the callback's first step issues the close order only from state
\* Monitoring with an active position
C38_CloseOnlyWhenMonitoring ==
    [][\A w \in Workers :
          (pc[w] = "cb_start" /\ pc'[w] = "pos_closed")
             => sm.current_state = MONITORING /\ IsSome(sm.active_position)]_vars

\* C37: a step of the cycle that starts with a position open on the exchange
\* places no opening order: the position on the exchange stays as it is
C37_NoOrderWhilePositionOpen ==
    [][\A t \in CycleThreads :
          (pc[t] = "cycle" /\ Steps(t) /\ IsSome(exPos)) => exPos' = exPos]_vars


\* C33: a position_closed call either applies in full (record built from the
\* active position, the close order and the profit; active position cleared;
\* state Converting) or leaves state, active position and closed record as
\* they were
C33_PositionClosedAllOrNothing ==
    [][\A w \in Workers :
          (pc[w] = "pos_closed" /\ Steps(w))
             => \/ /\ IsSome(sm.active_position)
                   /\ sm'.current_state = CONVERTING
                   /\ sm'.active_position = None
                   /\ sm'.last_closed_position =
                         Some(ClosedRecord(Get(sm.active_position), Get(loc[w].order), loc[w].pnl))
                \/ /\ sm'.current_state = sm.current_state
                   /\ sm'.active_position = sm.active_position
                   /\ sm'.last_closed_position = sm.last_closed_position]_vars


\* ================================================== the trades table of the Store
\* One bot with its database across cycles, signals and process restarts.  The
\* rows of the trades table are kept, oldest first, as their status in the
\* field trades of sm, next to the snapshot row.
MaxTrades == 3

WithStore(s, trades) ==
    [f \in (DOMAIN s) \cup {"trades"} |-> IF f = "trades" THEN trades ELSE s[f]]

\* DatabaseManager.save_trade: INSERT INTO trades (..., status, ...) with status 'open'
save_trade(trades) == Append(trades, "open")

\* the newest row with status 'open', 0 when there is none
NewestOpen(trades) ==
    IF \E i \in 1..Len(trades) : trades[i] = "open"
    THEN CHOOSE i \in 1..Len(trades) :
            /\ trades[i] = "open"
            /\ \A j \in (i + 1)..Len(trades) : trades[j] # "open"
    ELSE 0

\* DatabaseManager.update_trade_status(status='closed'): UPDATE trades SET status = ?
\* WHERE symbol = ? AND status = 'open' ORDER BY opened_at DESC LIMIT 1
update_trade_status(trades) ==
    IF NewestOpen(trades) = 0 THEN trades
    ELSE [trades EXCEPT ![NewestOpen(trades)] = "closed"]

TradeInit ==
    \E side \in Sides :
        /\ sm = WithStore(initialize_trading_config(InitSM, TradingConfig(side, 1), TRUE), <<>>)
        /\ running = FALSE
        /\ mon = [monitoring |-> FALSE, profit_threshold |-> 0, monitored_symbol |-> None,
                  monitor_thread |-> None, on_profit_reached |-> None]
        /\ exPos = None
        /\ pc = [t \in Threads |-> IF t \in Workers THEN "unborn" ELSE "idle"]
        /\ loc = [t \in Threads |-> InitLoc]
        /\ cyc = [w \in Workers |-> InitCyc]
        /\ fires = [w \in Workers |-> 0]
        /\ launched = 0
        /\ faults = 0
        /\ ops = 0
        /\ stop_seen = {}

\* the bot's thread has made the call op
TrdCalled(op) ==
    /\ pc' = [pc EXCEPT ![Ctl] = op]
    /\ UNCHANGED <<running, mon, loc, cyc, fires, launched, ops, stop_seen>>

\* start(): _run_trading_cycle up to the start of monitoring; position_opened
\* ends with db.save_trade, which raises when the Store fails
TrdCycle ==
    /\ IsSome(sm.trading_config)
    /\ Len(sm.trades) < MaxTrades
    /\ \E gwOk \in BOOLEAN, ok \in BOOLEAN, dbOk \in BOOLEAN, orderOk \in BOOLEAN,
          gwOk2 \in BOOLEAN :
         LET existing_position == get_position_by_symbol(exPos, gwOk)
         IN  IF IsSome(existing_position)
             THEN /\ orderOk /\ gwOk2
                  /\ Charge(F(ok) + F(dbOk))
                  /\ sm' = [position_opened(sm, Get(existing_position), ok) EXCEPT
                               !.trades = IF dbOk THEN save_trade(@) ELSE @]
                  /\ UNCHANGED exPos
             ELSE IF can_open_position(sm)
                  THEN LET r == open_position(sm, exPos, orderOk, gwOk2, dbOk, ok)
                           saved == /\ orderOk /\ dbOk
                                    /\ IsSome(get_position_by_symbol(r.ex, gwOk2))
                       IN  /\ orderOk \/ (gwOk2 /\ dbOk)
                           /\ gwOk2 \/ (dbOk /\ ok)
                           /\ Charge(F(exPos = None) + F(orderOk) + F(gwOk2) + F(ok) + F(dbOk))
                           /\ sm' = [r.sm EXCEPT !.trades = IF saved THEN save_trade(@) ELSE @]
                           /\ exPos' = r.ex
                  ELSE /\ orderOk /\ gwOk2 /\ dbOk /\ ok
                       /\ Charge(F(exPos = None))
                       /\ UNCHANGED <<sm, exPos>>
    /\ TrdCalled("cycle")

\* _on_profit_reached up to position_closed: set_state(CLOSING_POSITION), the
\* close order, then position_closed with db.update_trade_status
TrdSignal ==
    /\ is_monitoring(sm)
    /\ IsSome(exPos)
    /\ \E ok \in BOOLEAN, orderOk \in BOOLEAN, dbOk \in BOOLEAN, ok2 \in BOOLEAN :
         LET r == execute_profit_close(exPos, Get(exPos), TRUE, orderOk)
             s1 == set_state(sm, CLOSING_POSITION, ok)
         IN  /\ Charge(F(ok) + F(orderOk) + F(dbOk) + F(ok2))
             /\ IF r.kind = "order" /\ IsSome(sm.active_position)
                THEN /\ exPos' = None
                     /\ sm' = [position_closed(s1, Get(r.order), 1, dbOk, ok2) EXCEPT
                                  !.trades = IF dbOk THEN update_trade_status(@) ELSE @]
                ELSE /\ dbOk /\ ok2
                     /\ exPos' = IF r.kind = "order" THEN None ELSE exPos
                     /\ sm' = s1
    /\ TrdCalled("signal")

\* the rest of the pipeline: auto_reset
TrdAutoReset ==
    /\ pc[Ctl] = "signal"
    /\ sm.current_state = CONVERTING
    /\ \E ok1 \in BOOLEAN, ok2 \in BOOLEAN :
         Charge(F(ok1) + F(ok2)) /\ sm' = auto_reset(sm, ok1, ok2)
    /\ UNCHANGED exPos
    /\ TrdCalled("auto_reset")

\* the process restarts: StateManager.__init__ loads the snapshot; the rows of
\* the Store stay
TrdRestart ==
    /\ pc[Ctl] # "restart"
    /\ \E readOk \in BOOLEAN :
         /\ Charge(F(readOk))
         /\ sm' = WithStore([load_state(get_bot_state(sm.snapshot, readOk)) EXCEPT
                                !.snapshot = sm.snapshot], sm.trades)
    /\ UNCHANGED exPos
    /\ TrdCalled("restart")

TradeNext == TrdCycle \/ TrdSignal \/ TrdAutoReset \/ TrdRestart

TradeSpec == TradeInit /\ [][TradeNext]_vars

\* the rows of the trades table with status 'open'
OpenTrades == {i \in 1..Len(sm.trades) : sm.trades[i] = "open"}

\* C40: with an active position the Store holds at most one open trade record,
\* and none when position_closed has completed
C40_OneOpenTradeRecord ==
    /\ IsSome(sm.active_position) => Cardinality(OpenTrades) <= 1
    /\ (pc[Ctl] = "signal" /\ sm.current_state = CONVERTING) => OpenTrades = {}


\* ===================== ConversionManager and WithdrawalManager, by statement
\* The pipeline's conversion and withdrawal steps, and direct calls of
\* execute_conversion and execute_withdrawal, under every setting; each call
\* to the exchange client is logged in loc[Ctl].calls with its argument, what
\* it returned and whether it was accepted.
Amounts == {5, 10, 15}
QuoteIds == {"q1", "q2"}
Settings ==
    [auto_convert_enabled : BOOLEAN, auto_withdraw_enabled : BOOLEAN,
     withdrawal_address : {None, Some("address")}]

FundsLoc(settings) ==
    [settings |-> settings, op |-> "none", amount |-> None, available |-> None,
     quote |-> None, calls |-> <<>>, result |-> None]

FundsInit ==
    \E settings \in Settings :
        /\ sm = InitSM
        /\ running = FALSE
        /\ mon = [monitoring |-> FALSE, profit_threshold |-> 0, monitored_symbol |-> None,
                  monitor_thread |-> None, on_profit_reached |-> None]
        /\ exPos = None
        /\ pc = [t \in Threads |-> IF t = Ctl THEN "call" ELSE "unborn"]
        /\ loc = [t \in Threads |-> FundsLoc(settings)]
        /\ cyc = [w \in Workers |-> InitCyc]
        /\ fires = [w \in Workers |-> 0]
        /\ launched = 0
        /\ faults = 0
        /\ ops = 0
        /\ stop_seen = {}

FundsFrame == UNCHANGED <<sm, running, mon, exPos, cyc, fires, launched, faults, ops, stop_seen>>

\* the locals after one more call of the exchange client
Logged(l, fn, arg, ret, accepted) ==
    [l EXCEPT !.calls = Append(@, [fn |-> fn, arg |-> arg, ret |-> ret, accepted |-> accepted])]

\* the manager's function returns result (None also from its except clause)
FundsReturn(l, result) ==
    /\ pc' = [pc EXCEPT ![Ctl] = "returned"]
    /\ loc' = [loc EXCEPT ![Ctl] = [l EXCEPT !.result = result]]

\* the function goes on at statement p
FundsGo(l, p) ==
    /\ pc' = [pc EXCEPT ![Ctl] = p]
    /\ loc' = [loc EXCEPT ![Ctl] = l]

\* auto_convert_after_close(position): if not self.auto_convert_enabled: return None
CvCallAuto ==
    /\ pc[Ctl] = "call"
    /\ LET l == [loc[Ctl] EXCEPT !.op = "auto_convert_after_close"]
       IN  IF l.settings.auto_convert_enabled THEN FundsGo(l, "cv_settle") ELSE FundsReturn(l, None)
    /\ FundsFrame

\* available_amount of the base asset; if available_amount <= 0: return None;
\* return self.execute_conversion(base_asset, available_amount)
CvSettle ==
    /\ pc[Ctl] = "cv_settle"
    /\ \E balOk \in BOOLEAN, available \in Balances :
         LET l == Logged(loc[Ctl], "get_account_balance", 0, available, balOk)
         IN  IF balOk /\ ~(available <= 0)
             THEN FundsGo([l EXCEPT !.amount = Some(available)], "cv_balance")
             ELSE FundsReturn(l, None)
    /\ FundsFrame

\* execute_conversion(from_asset, amount): if not self.auto_convert_enabled: return None
CvCallExecute ==
    /\ pc[Ctl] = "call"
    /\ \E amount \in Amounts :
         LET l == [loc[Ctl] EXCEPT !.op = "execute_conversion", !.amount = Some(amount)]
         IN  IF l.settings.auto_convert_enabled THEN FundsGo(l, "cv_balance") ELSE FundsReturn(l, None)
    /\ FundsFrame

\* balance = self.exchange.get_account_balance(); if available < amount: return None
CvBalance ==
    /\ pc[Ctl] = "cv_balance"
    /\ \E balOk \in BOOLEAN, available \in Balances :
         LET l == Logged(loc[Ctl], "get_account_balance", 0, available, balOk)
             passes == IsSome(execute_conversion(l.settings.auto_convert_enabled, Get(l.amount),
                                                 balOk, available, TRUE, TRUE))
         IN  IF passes
             THEN FundsGo([l EXCEPT !.available = Some(available)], "cv_quote")
             ELSE FundsReturn(l, None)
    /\ FundsFrame

\* convert_crypto, step 1: quote = sapi_post_convert_getquote(...); quote_id = quote['quoteId']
CvQuote ==
    /\ pc[Ctl] = "cv_quote"
    /\ \E quoteOk \in BOOLEAN, quote_id \in QuoteIds :
         LET l == Logged(loc[Ctl], "getquote", Get(loc[Ctl].amount), quote_id, quoteOk)
         IN  IF quoteOk
             THEN FundsGo([l EXCEPT !.quote = Some(quote_id)], "cv_accept")
             ELSE FundsReturn(l, convert_crypto(FALSE, TRUE))
    /\ FundsFrame

\* convert_crypto, step 2: result = sapi_post_convert_acceptquote({'quoteId': quote_id})
CvAccept ==
    /\ pc[Ctl] = "cv_accept"
    /\ \E acceptOk \in BOOLEAN :
         FundsReturn(Logged(loc[Ctl], "acceptquote", Get(loc[Ctl].quote), "none", acceptOk),
                     convert_crypto(TRUE, acceptOk))
    /\ FundsFrame

\* auto_withdraw_after_conversion(asset) -> execute_withdrawal(asset), or
\* execute_withdrawal(asset, amount): the tests of the switch and the address
WdCall ==
    /\ pc[Ctl] = "call"
    /\ \E op \in {"auto_withdraw_after_conversion", "execute_withdrawal"},
          amount \in {None} \cup {Some(a) : a \in Amounts} :
         LET l == [loc[Ctl] EXCEPT !.op = op, !.amount = amount]
         IN  /\ op = "auto_withdraw_after_conversion" => amount = None
             /\ IF l.settings.auto_withdraw_enabled /\ IsSome(l.settings.withdrawal_address)
                THEN FundsGo(l, "wd_balance")
                ELSE FundsReturn(l, None)
    /\ FundsFrame

\* available = free balance; amount defaults to it; the minimum and the balance tests
WdBalance ==
    /\ pc[Ctl] = "wd_balance"
    /\ \E balOk \in BOOLEAN, available \in Balances :
         LET l == Logged(loc[Ctl], "get_account_balance", 0, available, balOk)
             r == execute_withdrawal(l.settings.auto_withdraw_enabled,
                                     IsSome(l.settings.withdrawal_address),
                                     l.amount, balOk, available, TRUE)
         IN  IF IsSome(r)
             THEN FundsGo([l EXCEPT !.available = Some(available),
                                    !.amount = Some(Get(r).amount)], "wd_request")
             ELSE FundsReturn(l, None)
    /\ FundsFrame

\* result = self.exchange.withdraw_crypto(asset, amount, address, network)
WdRequest ==
    /\ pc[Ctl] = "wd_request"
    /\ \E withdrawOk \in BOOLEAN :
         LET l == loc[Ctl]
         IN  FundsReturn(Logged(l, "withdraw_crypto", Get(l.amount), "none", withdrawOk),
                         execute_withdrawal(l.settings.auto_withdraw_enabled,
                                            IsSome(l.settings.withdrawal_address),
                                            l.amount, TRUE, Get(l.available), withdrawOk))
    /\ FundsFrame

\* the caller makes its next call
FundsAgain ==
    /\ pc[Ctl] = "returned"
    /\ FundsGo(FundsLoc(loc[Ctl].settings), "call")
    /\ FundsFrame

FundsNext ==
    \/ CvCallAuto \/ CvSettle \/ CvCallExecute \/ CvBalance \/ CvQuote \/ CvAccept
    \/ WdCall \/ WdBalance \/ WdRequest \/ FundsAgain

FundsSpec == FundsInit /\ [][FundsNext]_vars

\* the last logged call is an accepted call of fn
EndsWithAccepted(fn) ==
    LET c == loc[Ctl].calls
    IN  Len(c) > 0 /\ c[Len(c)].fn = fn /\ c[Len(c)].accepted

\* C35: a withdraw_crypto call is made only with auto-withdrawal enabled, an
\* address configured, an amount of at least MIN_WITHDRAWAL_AMOUNT and not above
\* the free balance just fetched; the step returns a result exactly when that
\* call was accepted and None in every other case
C35_WithdrawalGuards ==
    LET c == loc[Ctl].calls
        settings == loc[Ctl].settings
    IN  loc[Ctl].op \in {"auto_withdraw_after_conversion", "execute_withdrawal"}
          => /\ \A i \in 1..Len(c) :
                   c[i].fn = "withdraw_crypto"
                      => /\ settings.auto_withdraw_enabled
                         /\ IsSome(settings.withdrawal_address)
                         /\ c[i].arg >= MIN_WITHDRAWAL_AMOUNT
                         /\ i > 1
                         /\ c[i - 1].fn = "get_account_balance" /\ c[i - 1].accepted
                         /\ c[i].arg <= c[i - 1].ret
             /\ pc[Ctl] = "returned"
                   => (IsSome(loc[Ctl].result) <=> EndsWithAccepted("withdraw_crypto"))

\* execute_withdrawal(asset, 10) with a free balance of 10 returned the withdrawal
C35_Witness ==
    /\ loc[Ctl].op = "execute_withdrawal"
    /\ pc[Ctl] = "returned"
    /\ IsSome(loc[Ctl].result)
    /\ EndsWithAccepted("withdraw_crypto")

PollThresholds == {-1, 0, 1, 2}

PollLoc == [position |-> None, pnl |-> 0, failed |-> FALSE]

PollInit ==
    \E side \in Sides, profit_threshold \in PollThresholds, present \in BOOLEAN :
        /\ sm = InitSM
        /\ running = FALSE
        /\ mon = [monitoring |-> TRUE, profit_threshold |-> profit_threshold,
                  monitored_symbol |-> Some(Symbol), monitor_thread |-> Some(1),
                  on_profit_reached |-> Some(OnProfitReached)]
        /\ exPos = IF present THEN Some(MonitoredPosition(side)) ELSE None
        /\ pc = [t \in Threads |-> IF t = Ctl THEN "idle" ELSE IF t = 1 THEN "check" ELSE "unborn"]
        /\ loc = [t \in Threads |-> PollLoc]
        /\ cyc = [w \in Workers |-> InitCyc]
        /\ fires = [w \in Workers |-> 0]
        /\ launched = 1
        /\ faults = 0
        /\ ops = 0
        /\ stop_seen = {}

PollFrame == UNCHANGED <<sm, running, exPos, cyc, launched, faults, ops, stop_seen>>

\* position = self.exchange.get_position_by_symbol(self.monitored_symbol);
\* if not position: time.sleep(MONITOR_INTERVAL); continue
PollPosition(w) ==
    /\ pc[w] = "poll"
    /\ \E gwOk \in BOOLEAN :
         LET position == get_position_by_symbol(exPos, gwOk)
         IN  /\ loc' = [loc EXCEPT ![w] = [position |-> position, pnl |-> 0, failed |-> ~gwOk]]
             /\ pc' = [pc EXCEPT ![w] = IF position = None THEN "check" ELSE "pnl"]
    /\ UNCHANGED <<mon, fires>>
    /\ PollFrame

\* current_pnl = self.exchange.calculate_position_pnl(position)
PollPnl(w) ==
    /\ pc[w] = "pnl"
    /\ \E tickerOk \in BOOLEAN, price \in Prices :
         loc' = [loc EXCEPT ![w].pnl = calculate_position_pnl(Get(loc[w].position), tickerOk, price),
                            ![w].failed = ~tickerOk]
    /\ pc' = [pc EXCEPT ![w] = "compare"]
    /\ UNCHANGED <<mon, fires>>
    /\ PollFrame

\* if current_pnl >= self.profit_threshold: self.monitoring = False;
\* self.on_profit_reached(position, current_pnl); break -- else sleep
PollCompare(w) ==
    /\ pc[w] = "compare"
    /\ IF ThresholdReached(loc[w].pnl, mon.profit_threshold)
       THEN /\ mon' = [mon EXCEPT !.monitoring = FALSE]
            /\ fires' = [fires EXCEPT ![w] = @ + 1]
            /\ pc' = [pc EXCEPT ![w] = "cb_start"]
       ELSE /\ pc' = [pc EXCEPT ![w] = "check"]
            /\ UNCHANGED <<mon, fires>>
    /\ UNCHANGED loc
    /\ PollFrame

\* the callback returns and the loop is left (break)
PollCallbackReturn(w) ==
    /\ pc[w] = "cb_start"
    /\ pc' = [pc EXCEPT ![w] = "done"]
    /\ UNCHANGED <<mon, loc, fires>>
    /\ PollFrame

\* the price moves, or the position appears or disappears, on the exchange
PollExchange ==
    /\ \E side \in Sides, present \in BOOLEAN :
         exPos' = IF present THEN Some(MonitoredPosition(side)) ELSE None
    /\ exPos' # exPos
    /\ UNCHANGED <<sm, running, mon, pc, loc, cyc, fires, launched, faults, ops, stop_seen>>

PollNext ==
    \/ PollExchange
    \/ \E w \in Workers :
         MonitorCheck(w) \/ PollPosition(w) \/ PollPnl(w) \/ PollCompare(w) \/ PollCallbackReturn(w)

PollSpec == PollInit /\ [][PollNext]_vars

\* C31: a poll that found no position, or one of whose fetches failed, does not
\* invoke the callback and does not end the worker: it goes back to the loop check
C31_FailedPollNeverFires ==
    [][\A w \in Workers :
          (pc[w] \in {"poll", "pnl", "compare"} /\ Steps(w)
             /\ (loc'[w].position = None \/ loc'[w].failed))
          => /\ pc'[w] \in {"check", "pnl", "compare"}
             /\ fires' = fires
             /\ mon' = mon]_vars



\* -------------------------------------------- the monitor's worker terminates
\* The threads are scheduled and every exchange call returns: a worker that can
\* take a step of its loop or of its callback eventually takes one.
FairMonSpec ==
    MonSpec /\ \A w \in Workers :
                  WF_vars(MonitorCheck(w) \/ MonitorPoll(w)
                             \/ MonCallbackRestart(w) \/ MonCallbackReturn(w))

\* every worker that was launched has left _monitor_loop
AllExited == \A w \in Workers : pc[w] \in {"unborn", "done"}

\* C32: once stop_monitoring was called and the flag is never set again (no
\* start_monitoring follows), every worker eventually leaves its loop; a loop
\* check that reads the cleared flag ends the worker, which then polls no more
C32_StoppedWorkerExits ==
    /\ []((pc[Ctl] = "stop_monitoring" /\ [](~mon.monitoring)) => <>AllExited)
    /\ [][\A w \in Workers :
             /\ (pc[w] = "check" /\ Steps(w) /\ ~mon.monitoring) => pc'[w] = "done"
             /\ pc[w] = "done" => pc'[w] = "done"]_vars

\* stop_monitoring was the client's last call, and the worker left its loop
\* on reading the flag, without having signalled
C32_Witness ==
    /\ pc[Ctl] = "stop_monitoring"
    /\ ~mon.monitoring
    /\ launched = 1
    /\ pc[1] = "done"
    /\ fires[1] = 0



\* ============================================ StateManager.update_trading_config
\* The configuration object with its instance attributes: the eight fields set
\* by TradingConfig.__init__ (the record in trading_config) and the names
\* that setattr has bound on the instance over a method of the class (shadowed).
ConfigFields ==
    {"symbol", "side", "quantity", "leverage", "margin_mode", "profit_threshold",
     "entry_price", "position_opened_at"}
ConfigMethods == {"to_dict", "from_dict", "reset"}

\* the keyword names a caller passes: two fields, a method name, an unknown name
UpdateNames == {"side", "profit_threshold", "reset", "stop_loss"}
UpdateThresholds == {1, 2}

WithInstance(s, shadowed) ==
    [current_state |-> s.current_state, trading_config |-> s.trading_config,
     active_position |-> s.active_position, last_closed_position |-> s.last_closed_position,
     trade_history |-> s.trade_history, snapshot |-> s.snapshot, shadowed |-> shadowed]

\* hasattr(self.trading_config, key)
hasattr_config(key) == key \in ConfigFields \cup ConfigMethods

\* StateManager.update_trading_config(**updates)
update_trading_config(s, updates, ok) ==
    IF s.trading_config = None
    THEN s
    ELSE LET c == Get(s.trading_config)
             set == {key \in DOMAIN updates : hasattr_config(key)}
             c1 == [f \in DOMAIN c |-> IF f \in set THEN updates[f] ELSE c[f]]
         IN  save_state([s EXCEPT !.trading_config = Some(c1),
                                  !.shadowed = @ \cup (set \ ConfigFields)], ok)

ConfigInit ==
    /\ sm = WithInstance(InitSM, {})
    /\ running = FALSE
    /\ mon = [monitoring |-> FALSE, profit_threshold |-> 0, monitored_symbol |-> None,
              monitor_thread |-> None, on_profit_reached |-> None]
    /\ exPos = None
    /\ pc = [t \in Threads |-> IF t \in Workers THEN "unborn" ELSE "idle"]
    /\ loc = [t \in Threads |-> [names |-> {}]]
    /\ cyc = [w \in Workers |-> InitCyc]
    /\ fires = [w \in Workers |-> 0]
    /\ launched = 0
    /\ faults = 0
    /\ ops = 0
    /\ stop_seen = {}

\* initialize_trading_config(config) with a new TradingConfig object
CfgInitializeConfig ==
    /\ \E side \in Sides, threshold \in UpdateThresholds, ok \in BOOLEAN :
         /\ Charge(F(ok))
         /\ sm' = [initialize_trading_config(sm, TradingConfig(side, threshold), ok)
                      EXCEPT !.shadowed = {}]
    /\ Called("initialize_trading_config")

CfgPositionOpened ==
    /\ \E side \in Sides, ok \in BOOLEAN :
         Charge(F(ok)) /\ sm' = position_opened(sm, MonitoredPosition(side), ok)
    /\ Called("position_opened")

\* update_trading_config(**updates) with any of the names
CfgUpdate ==
    /\ \E names \in SUBSET UpdateNames, side \in Sides, threshold \in UpdateThresholds,
          ok \in BOOLEAN :
         LET updates == [key \in names |->
                            CASE key = "side" -> side
                              [] key = "profit_threshold" -> threshold
                              [] OTHER -> 0]
         IN  /\ Charge(IF sm.trading_config = None THEN 0 ELSE F(ok))
             /\ sm' = update_trading_config(sm, updates, ok)
             /\ loc' = [loc EXCEPT ![Ctl] = [names |-> names]]
    /\ pc' = [pc EXCEPT ![Ctl] = "update_trading_config"]
    /\ ops' = ops + 1
    /\ ops < MaxOps
    /\ UNCHANGED <<running, mon, exPos, cyc, fires, launched, stop_seen>>

ConfigNext == CfgInitializeConfig \/ CfgPositionOpened \/ CfgUpdate

ConfigSpec == ConfigInit /\ [][ConfigNext]_vars

\* C34: update_trading_config without a configuration changes and writes
\* nothing; with one, the only attributes of the configuration that change are
\* config fields named in the call, and current_state, active_position,
\* last_closed_position and trade_history stay as they are
C34_UpdateConfigFrame ==
    [][(ops' = ops + 1 /\ pc'[Ctl] = "update_trading_config")
          => IF sm.trading_config = None
             THEN sm' = sm /\ faults' = faults
             ELSE /\ sm'.current_state = sm.current_state
                  /\ sm'.active_position = sm.active_position
                  /\ sm'.last_closed_position = sm.last_closed_position
                  /\ sm'.trade_history = sm.trade_history
                  /\ IsSome(sm'.trading_config)
                  /\ \A f \in ConfigFields :
                        Get(sm'.trading_config)[f] # Get(sm.trading_config)[f]
                           => f \in loc'[Ctl].names
                  /\ sm'.shadowed = sm.shadowed]_vars

====
